---------------------------- MODULE Spec2Model ----------------------------
(***************************************************************************)
(* A model of the session manager (nw0/session-manager).                   *)
(*                                                                         *)
(* Session (src/src/session.rs) owns an ordered map of windows, the id of  *)
(* the selected window, the id the next window gets and the terminal size. *)
(* Its operations are modelled as functions from a session record to the   *)
(* session record after the call, so that a caller that chains calls       *)
(* (pty_update calling select_window) composes them as the code does.      *)
(*                                                                         *)
(* The windows are seen through the SessionWindow trait: `calls` is the    *)
(* sequence of trait-method calls the last Session operation made, in      *)
(* order, which is what tests::MockWindow records in its channels.         *)
(***************************************************************************)
EXTENDS Integers, Sequences, FiniteSets, TLC

(* ------------------------------ bounds -------------------------------- *)

\* Windows created over the life of a session (caps next_window).
MaxWindows == 3
\* Terminal heights 1..MaxRows; the width is fixed.
MaxRows == 2
\* Longest stdin chunk handed to receive_stdin.
MaxData == 2

\* tests::WINSZ.ws_col
WINSZ_COL == 80

\* u8 values: no operation looks at a byte's value, two distinct ones show
\* identity and order.
Bytes == {0, 1}

\* nix::pty::Winsize, pixel fields left out (always 0 in util::get_term_size)
WinSizes == {[ws_row |-> r, ws_col |-> WINSZ_COL] : r \in 1..MaxRows}

\* &[u8] arguments of receive_stdin
DataChunks == UNION {[1..n -> Bytes] : n \in 0..MaxData}

\* Window ids a caller may name: every id ever handed out and one never used.
Ids == 0..MaxWindows

(* --------------------------- Option<usize> ---------------------------- *)

None == <<>>
Some(x) == <<x>>
IsSome(o) == o # None
Unwrap(o) == o[1]
\* Option::or / Option::or_else
OrElse(a, b) == IF IsSome(a) THEN a ELSE b

SetMin(S) == CHOOSE x \in S : \A y \in S : x <= y
SetMax(S) == CHOOSE x \in S : \A y \in S : x >= y

(* ------------------------------ results ------------------------------- *)

Ok == [tag |-> "Ok"]
OkIdx(i) == [tag |-> "Ok", idx |-> i]
Err(e) == [tag |-> "Err", err |-> e]
RetOpt(o) == [tag |-> "Option", opt |-> o]
Panic == [tag |-> "Panic"]
NoRet == [tag |-> "NoRet"]

\* PtyUpdate
Exited == [tag |-> "Exited"]
Byte(b) == [tag |-> "Byte", byte |-> b]
PtyUpdates == {Exited} \cup {Byte(b) : b \in Bytes}

(* ------------------------------ state --------------------------------- *)

VARIABLES
    next_window,      \* Session.next_window
    selected_window,  \* Session.selected_window : Option<usize>
    windows,          \* Session.windows : id -> window
    size,             \* Session.size
    op,               \* the last operation called and its arguments
    ret,              \* what it returned
    calls,            \* the SessionWindow calls it made, in order
    issued,           \* the ids new_window has returned, in order
    was_selected,     \* selected_window_idx() as read before the last operation
    entry,            \* the event loop that runs: EventLoop::run or main's event_loop
    pc,               \* where the event loop is
    manage_mode,      \* the loop's manage_mode
    dirty,            \* the loop's dirty
    ptys_update,      \* the ids whose byte stream is in the PTY fan-in
    ptys_done,        \* the fan-in has yielded None and is terminated
    wrote,            \* what the last step wrote to the terminal
    banners,          \* exit banners written so far
    grid,             \* a Grid: the display buffer of one console
    snap              \* the Grid as it was before the scroll_up just made

session_vars == <<next_window, selected_window, windows, size, op, ret, calls,
                  issued, was_selected>>

loop_vars == <<entry, pc, manage_mode, dirty, ptys_update, ptys_done, wrote,
               banners>>

grid_vars == <<grid, snap>>

vars == <<next_window, selected_window, windows, size, op, ret, calls, issued,
          was_selected, entry, pc, manage_mode, dirty, ptys_update, ptys_done,
          wrote, banners, grid, snap>>

\* The Session as one value, with the trace of the operation in progress.
Self ==
    [next_window |-> next_window, selected_window |-> selected_window,
     windows |-> windows, size |-> size, calls |-> <<>>, ret |-> NoRet]

\* A call of window w's method `name`; the argument is kept as the numbers
\* that make it up (a Winsize, a byte, a byte string, or nothing), so that any
\* two calls can be compared.
Call(w, name, arg) ==
    [w |-> w, call |-> name,
     arg |-> CASE name = "resize" -> <<arg.ws_row, arg.ws_col>>
               [] name = "pty_update" -> <<arg>>
               [] OTHER -> arg]

(* ------------------------------ Window -------------------------------- *)

\* Window::new: the window remembers the size it was spawned with.
Window_new(sz) == [size |-> sz]

\* Window::resize: nothing happens when the size is the one last applied.
Window_resize(w, sz) == IF sz # w.size THEN [w EXCEPT !.size = sz] ELSE w

(* ------------------------------ Session ------------------------------- *)

Keys(s) == DOMAIN s.windows

\* The map without key k (BTreeMap::remove).
Remove(ws, k) == [i \in (DOMAIN ws) \ {k} |-> ws[i]]

\* The map with key k bound to w (BTreeMap::insert).
Insert(ws, k, w) == [i \in (DOMAIN ws) \cup {k} |-> IF i = k THEN w ELSE ws[i]]

Session_new(sz) ==
    [next_window |-> 0, selected_window |-> None, windows |-> <<>>,
     size |-> sz, calls |-> <<>>, ret |-> NoRet]

\* Mutant: the id is the number of live windows, so the id of an exited
\* window is handed out again.
new_window_len(s, spawn_ok) ==
    LET window_idx == Cardinality(Keys(s)) IN
    IF ~spawn_ok THEN [s EXCEPT !.ret = Panic]
    ELSE [s EXCEPT !.windows = Insert(@, window_idx, Window_new(s.size)),
                   !.next_window = @ + 1,
                   !.ret = OkIdx(window_idx)]

\* Mutant: the new window is selected as it is created.
new_window_select(s, spawn_ok) ==
    LET window_idx == s.next_window IN
    IF ~spawn_ok THEN [s EXCEPT !.ret = Panic]
    ELSE [s EXCEPT !.windows = Insert(@, window_idx, Window_new(s.size)),
                   !.next_window = @ + 1,
                   !.selected_window = Some(window_idx),
                   !.calls = @ \o <<Call(window_idx, "mark_dirty", <<>>)>>,
                   !.ret = OkIdx(window_idx)]

\* W::new(..).unwrap(): a failed spawn aborts the process.
new_window(s, spawn_ok) ==
    LET window_idx == s.next_window IN
    IF ~spawn_ok THEN [s EXCEPT !.ret = Panic]
    ELSE [s EXCEPT !.windows = Insert(@, window_idx, Window_new(s.size)),
                   !.next_window = @ + 1,
                   !.ret = OkIdx(window_idx)]

\* selected_window(): Ok(id) of the selected window, or the error.
selected_window_ref(s) ==
    IF s.selected_window = None THEN Err("NoSelectedWindow")
    ELSE IF Unwrap(s.selected_window) \in Keys(s)
         THEN OkIdx(Unwrap(s.selected_window))
         ELSE Err("WindowLost")

\* selected_window_mut()
selected_window_mut(s) ==
    IF IsSome(s.selected_window) /\ Unwrap(s.selected_window) \in Keys(s)
    THEN OkIdx(Unwrap(s.selected_window))
    ELSE Err("NoSelectedWindow")

\* Mutant: the id is selected without looking it up.
select_window_unchecked(s, idx) ==
    IF idx \in Keys(s)
    THEN [s EXCEPT !.selected_window = Some(idx),
                   !.windows[idx] = Window_resize(@, s.size),
                   !.calls = @ \o <<Call(idx, "resize", s.size),
                                    Call(idx, "mark_dirty", <<>>)>>,
                   !.ret = RetOpt(Some(idx))]
    ELSE [s EXCEPT !.selected_window = Some(idx), !.ret = RetOpt(None)]

\* Mutant: the newly selected window is not marked dirty.
select_window_nomark(s, idx) ==
    IF idx \in Keys(s)
    THEN [s EXCEPT !.selected_window = Some(idx),
                   !.windows[idx] = Window_resize(@, s.size),
                   !.calls = @ \o <<Call(idx, "resize", s.size)>>,
                   !.ret = RetOpt(Some(idx))]
    ELSE [s EXCEPT !.ret = RetOpt(None)]

select_window(s, idx) ==
    IF idx \in Keys(s)
    THEN LET s1 == [s EXCEPT !.selected_window = Some(idx)]
             sz == s1.size
             w  == selected_window_mut(s1).idx
         IN [s1 EXCEPT !.windows[w] = Window_resize(@, sz),
                       !.calls = @ \o <<Call(w, "resize", sz),
                                        Call(w, "mark_dirty", <<>>)>>,
                       !.ret = RetOpt(Some(idx))]
    ELSE [s EXCEPT !.ret = RetOpt(None)]

selected_window_idx(s) == s.selected_window

\* Mutant: the last of the later windows instead of the first.
next_window_idx_last(s) ==
    IF s.selected_window = None THEN None
    ELSE LET r == {k \in Keys(s) : k >= Unwrap(s.selected_window) + 1}
         IN IF r = {} THEN None ELSE Some(SetMax(r))

next_window_idx(s) ==
    IF s.selected_window = None THEN None
    ELSE LET r == {k \in Keys(s) : k >= Unwrap(s.selected_window) + 1}
         IN IF r = {} THEN None ELSE Some(SetMin(r))

\* Mutant: the first of the earlier windows instead of the last.
prev_window_idx_first(s) ==
    IF s.selected_window = None THEN None
    ELSE LET r == {k \in Keys(s) : k < Unwrap(s.selected_window)}
         IN IF r = {} THEN None ELSE Some(SetMin(r))

prev_window_idx(s) ==
    IF s.selected_window = None THEN None
    ELSE LET r == {k \in Keys(s) : k < Unwrap(s.selected_window)}
         IN IF r = {} THEN None ELSE Some(SetMax(r))

first_window_idx(s) == IF Keys(s) = {} THEN None ELSE Some(SetMin(Keys(s)))

last_window_idx(s) == IF Keys(s) = {} THEN None ELSE Some(SetMax(Keys(s)))

\* Mutant: stdin goes to the oldest window instead of the selected one.
receive_stdin_first(s, data, io_ok) ==
    LET sel == selected_window_ref(s) IN
    IF sel.tag = "Err" THEN [s EXCEPT !.ret = sel]
    ELSE [s EXCEPT !.calls = @ \o <<Call(Unwrap(first_window_idx(s)),
                                         "receive_stdin", data)>>,
                   !.ret = IF io_ok THEN Ok ELSE Err("Io")]

\* Window::receive_stdin may fail writing to the PTY; the error is passed on.
receive_stdin(s, data, io_ok) ==
    LET sel == selected_window_ref(s) IN
    IF sel.tag = "Err" THEN [s EXCEPT !.ret = sel]
    ELSE [s EXCEPT !.calls = @ \o <<Call(sel.idx, "receive_stdin", data)>>,
                   !.ret = IF io_ok THEN Ok ELSE Err("Io")]

\* Mutant: with no window selected the oldest window is drawn.
redraw_first(s) ==
    LET sel == IF s.selected_window = None /\ Keys(s) # {}
               THEN OkIdx(SetMin(Keys(s))) ELSE selected_window_mut(s) IN
    IF sel.tag = "Err" THEN [s EXCEPT !.ret = sel]
    ELSE [s EXCEPT !.calls = @ \o <<Call(sel.idx, "redraw", <<>>)>>,
                   !.ret = Ok]

redraw(s) ==
    LET sel == selected_window_mut(s) IN
    IF sel.tag = "Err" THEN [s EXCEPT !.ret = sel]
    ELSE [s EXCEPT !.calls = @ \o <<Call(sel.idx, "redraw", <<>>)>>,
                   !.ret = Ok]

\* Mutant: the window is removed and the selection is left alone.
pty_update_Exited_keep(s, window_idx) ==
    IF window_idx \notin Keys(s) THEN [s EXCEPT !.ret = Err("WindowLost")]
    ELSE [s EXCEPT !.windows = Remove(@, window_idx), !.ret = Ok]

\* Mutant: no fallback to the last window when there is no later one.
pty_update_Exited_nofallback(s, window_idx) ==
    IF window_idx \notin Keys(s) THEN [s EXCEPT !.ret = Err("WindowLost")]
    ELSE LET s1 == [s EXCEPT !.windows = Remove(@, window_idx)]
             succ == next_window_idx(s1)
         IN IF IsSome(succ)
            THEN [select_window(s1, Unwrap(succ)) EXCEPT !.ret = Ok]
            ELSE [s1 EXCEPT !.selected_window = None, !.ret = Ok]

\* Mutant: the exited window stays in the map.
pty_update_Exited_noremove(s, window_idx) ==
    IF window_idx \notin Keys(s) THEN [s EXCEPT !.ret = Err("WindowLost")]
    ELSE [s EXCEPT !.ret = Ok]

\* The Exited arm of pty_update.
pty_update_Exited(s, window_idx) ==
    IF window_idx \notin Keys(s) THEN [s EXCEPT !.ret = Err("WindowLost")]
    ELSE LET s1 == [s EXCEPT !.windows = Remove(@, window_idx)]
             succ == OrElse(next_window_idx(s1), last_window_idx(s1))
         IN IF IsSome(succ)
            THEN [select_window(s1, Unwrap(succ)) EXCEPT !.ret = Ok]
            ELSE [s1 EXCEPT !.selected_window = None, !.ret = Ok]

\* Mutant: the byte is fed to the selected window, whatever its tag.
pty_update_Byte_selected(s, window_idx, byte) ==
    IF window_idx \notin Keys(s) THEN [s EXCEPT !.ret = Err("WindowLost")]
    ELSE LET w == IF IsSome(s.selected_window) /\ Unwrap(s.selected_window) \in Keys(s)
                  THEN Unwrap(s.selected_window) ELSE window_idx
         IN [s EXCEPT !.calls = @ \o <<Call(w, "pty_update", byte)>>,
                      !.ret = Ok]

\* The Byte arm of pty_update.
pty_update_Byte(s, window_idx, byte) ==
    IF window_idx \notin Keys(s) THEN [s EXCEPT !.ret = Err("WindowLost")]
    ELSE [s EXCEPT !.calls = @ \o <<Call(window_idx, "pty_update", byte)>>,
                   !.ret = Ok]

pty_update(s, window_idx, data) ==
    IF data.tag = "Exited" THEN pty_update_Exited(s, window_idx)
    ELSE pty_update_Byte(s, window_idx, data.byte)

\* Mutant: the session keeps the size and tells no window.
resize_unforwarded(s, sz) ==
    LET s1 == [s EXCEPT !.size = sz]
        sel == selected_window_mut(s1)
    IN IF sel.tag = "Err" THEN [s1 EXCEPT !.ret = sel]
       ELSE [s1 EXCEPT !.ret = Ok]

\* Mutant: every window is resized at once.
resize_all(s, sz) ==
    LET s1 == [s EXCEPT !.size = sz]
        sel == selected_window_mut(s1)
    IN IF sel.tag = "Err" THEN [s1 EXCEPT !.ret = sel]
       ELSE [s1 EXCEPT !.windows = [k \in Keys(s1) |-> Window_resize(s1.windows[k], sz)],
                       !.calls = @ \o <<Call(sel.idx, "resize", sz)>>,
                       !.ret = Ok]

resize(s, sz) ==
    LET s1 == [s EXCEPT !.size = sz]
        sel == selected_window_mut(s1)
    IN IF sel.tag = "Err" THEN [s1 EXCEPT !.ret = sel]
       ELSE [s1 EXCEPT !.windows[sel.idx] = Window_resize(@, sz),
                       !.calls = @ \o <<Call(sel.idx, "resize", sz)>>,
                       !.ret = Ok]

(* ------------------------------ actions ------------------------------- *)

\* The session after an operation: its fields, and what the call did.
Becomes(s) ==
    /\ next_window' = s.next_window
    /\ selected_window' = s.selected_window
    /\ windows' = s.windows
    /\ size' = s.size
    /\ calls' = s.calls
    /\ ret' = s.ret
    /\ was_selected' = selected_window
    /\ UNCHANGED grid_vars

\* No call is made on a session whose process has aborted.
Running == ret # Panic

\* A Session used on its own, as the tests of session.rs use it: no event loop.
NoLoop ==
    /\ entry = "none"
    /\ pc = "none"
    /\ manage_mode = FALSE
    /\ dirty = FALSE
    /\ ptys_update = {}
    /\ ptys_done = FALSE
    /\ wrote = <<>>
    /\ banners = 0

\* The Session is driven with MockWindow: no window holds a Grid.
NoGrid ==
    /\ grid = <<>>
    /\ snap = <<>>

Init ==
    \E sz \in WinSizes :
        /\ next_window = Session_new(sz).next_window
        /\ selected_window = Session_new(sz).selected_window
        /\ windows = Session_new(sz).windows
        /\ size = Session_new(sz).size
        /\ calls = <<>>
        /\ ret = NoRet
        /\ op = [name |-> "new"]
        /\ issued = <<>>
        /\ was_selected = None
        /\ NoLoop
        /\ NoGrid

NewWindow ==
    /\ Running
    /\ next_window < MaxWindows
    /\ \E spawn_ok \in BOOLEAN :
        LET s == new_window(Self, spawn_ok) IN
        /\ Becomes(s)
        /\ op' = [name |-> "new_window"]
        /\ issued' = IF s.ret.tag = "Ok" THEN Append(issued, s.ret.idx) ELSE issued
        /\ UNCHANGED loop_vars

SelectWindow ==
    /\ Running
    /\ \E idx \in Ids :
        /\ Becomes(select_window(Self, idx))
        /\ op' = [name |-> "select_window", idx |-> idx]
        /\ UNCHANGED <<issued, loop_vars>>

PtyUpdate ==
    /\ Running
    /\ \E idx \in Ids, data \in PtyUpdates :
        /\ Becomes(pty_update(Self, idx, data))
        /\ op' = [name |-> "pty_update", idx |-> idx, data |-> data]
        /\ UNCHANGED <<issued, loop_vars>>

Resize ==
    /\ Running
    /\ \E sz \in WinSizes :
        /\ Becomes(resize(Self, sz))
        /\ op' = [name |-> "resize", size |-> sz]
        /\ UNCHANGED <<issued, loop_vars>>

ReceiveStdin ==
    /\ Running
    /\ \E data \in DataChunks, io_ok \in BOOLEAN :
        /\ Becomes(receive_stdin(Self, data, io_ok))
        /\ op' = [name |-> "receive_stdin", data |-> data]
        /\ UNCHANGED <<issued, loop_vars>>

Redraw ==
    /\ Running
    /\ Becomes(redraw(Self))
    /\ op' = [name |-> "redraw"]
    /\ UNCHANGED <<issued, loop_vars>>

Next ==
    \/ NewWindow
    \/ SelectWindow
    \/ PtyUpdate
    \/ Resize
    \/ ReceiveStdin
    \/ Redraw

Spec == Init /\ [][Next]_vars


(* ------------------------------ claims -------------------------------- *)

\* The last operation was pty_update(Exited) and it removed a window.
ExitedDone == op.name = "pty_update" /\ op.data = Exited /\ ret = Ok

\* The last operation was pty_update(Byte(_)).
ByteDone == op.name = "pty_update" /\ op.data.tag = "Byte"

\* The last operation returned, and not an error (a select_window that found
\* its window, or an Ok).
ReturnedWithoutError ==
    \/ ret.tag = "Ok"
    \/ ret.tag = "Option" /\ IsSome(ret.opt)

\* C1: the selected id is absent or a key of the windows map, and then it lies
\* between first_window_idx and last_window_idx.
C1_SelectedIsLive ==
    IsSome(selected_window) =>
        /\ Unwrap(selected_window) \in DOMAIN windows
        /\ Unwrap(first_window_idx(Self)) <= Unwrap(selected_window)
        /\ Unwrap(selected_window) <= Unwrap(last_window_idx(Self))

\* C1 witness: the selected window exited while others were left, and a live
\* window is selected.
C1_Witness ==
    /\ ExitedDone
    /\ was_selected = Some(op.idx)
    /\ IsSome(selected_window)
    /\ Cardinality(DOMAIN windows) >= 2

\* C2 as stated: whenever an operation has returned without error and the
\* windows map is non-empty, a window is selected.
C2_Original ==
    (ReturnedWithoutError /\ DOMAIN windows # {}) => IsSome(selected_window)

\* C2 amended: after select_window returns Some, pty_update(Exited) returns Ok,
\* or resize, receive_stdin or redraw returns Ok, a non-empty windows map has a
\* selected window; new_window and pty_update(Byte) leave the selection as it
\* was, selected or not.
C2_SelectedUnlessNeverSelected ==
    /\ (/\ ReturnedWithoutError
        /\ DOMAIN windows # {}
        /\ op.name # "new_window"
        /\ ~ByteDone) => IsSome(selected_window)
    /\ (op.name = "new_window" \/ ByteDone) => selected_window = was_selected

\* C2 witness: the last window of the map is removed while an older one
\* remains, and a window is selected afterwards.
C2_Witness ==
    /\ ExitedDone
    /\ DOMAIN windows # {}
    /\ \A k \in DOMAIN windows : k < op.idx
    /\ IsSome(selected_window)

\* C3: when pty_update(Exited) removes the selected window, the selection
\* becomes the smallest remaining id above it, else the greatest remaining id
\* below it, else absent; when windows remain one of them is selected.
C3_SuccessorOnExit ==
    (ExitedDone /\ was_selected = Some(op.idx)) =>
        LET greater == {k \in DOMAIN windows : k > op.idx}
            smaller == {k \in DOMAIN windows : k < op.idx}
        IN /\ op.idx \notin DOMAIN windows
           /\ selected_window =
                IF greater # {} THEN Some(SetMin(greater))
                ELSE IF smaller # {} THEN Some(SetMax(smaller))
                ELSE None
           /\ DOMAIN windows # {} =>
                /\ IsSome(selected_window)
                /\ Unwrap(selected_window) \in DOMAIN windows

\* C3 witness: the selected window exited with two younger windows left.
C3_Witness ==
    /\ ExitedDone
    /\ was_selected = Some(op.idx)
    /\ Cardinality({k \in DOMAIN windows : k > op.idx}) >= 2

\* C4 as stated: pty_update(Exited) for a window other than the selected one
\* leaves the selected id as it was.
C4_OtherExitKeepsSelection ==
    (ExitedDone /\ IsSome(was_selected) /\ was_selected # Some(op.idx)) =>
        selected_window = was_selected

\* C5: the ids new_window returns are strictly increasing (so none is handed
\* out twice), every live or returned id is below next_window, and next_window
\* never decreases.
C5_IdsIncrease ==
    /\ [](/\ \A i, j \in 1..Len(issued) : i < j => issued[i] < issued[j]
          /\ \A i \in 1..Len(issued) : issued[i] < next_window
          /\ \A k \in DOMAIN windows : k < next_window)
    /\ [][next_window' >= next_window]_vars

\* C5 witness: new_window returned an id after an earlier window had exited.
C5_Witness ==
    /\ op.name = "new_window"
    /\ ret.tag = "Ok"
    /\ Len(issued) >= 2
    /\ \E i \in 1..Len(issued) - 1 : issued[i] \notin DOMAIN windows

\* The windows other than id are the same windows before and after a step.
OthersUnchanged(id) ==
    \A k \in (DOMAIN windows \cup DOMAIN windows') \ {id} :
        /\ k \in DOMAIN windows
        /\ k \in DOMAIN windows'
        /\ windows'[k] = windows[k]

\* C6: while window id is selected, receive_stdin(data) keeps it selected and
\* makes one call, receive_stdin(data) on window id, and no call on any other
\* window.
C6_StdinToSelectedOnly ==
    (op.name = "receive_stdin" /\ IsSome(was_selected)) =>
        /\ selected_window = was_selected
        /\ calls = <<Call(Unwrap(was_selected), "receive_stdin", op.data)>>
        /\ ret \in {Ok, Err("Io")}

\* C6 witness: two different bytes were delivered to the selected window, which
\* is not the only one and not the oldest.
C6_Witness ==
    /\ op.name = "receive_stdin"
    /\ ret = Ok
    /\ Len(op.data) = 2
    /\ op.data[1] # op.data[2]
    /\ IsSome(selected_window)
    /\ \E k \in DOMAIN windows : k < Unwrap(selected_window)

\* C7: select_window(id) with an id that is no key returns None, leaves the
\* session as it was and calls no window.
C7_SelectMissing ==
    [][(op'.name = "select_window" /\ op'.idx \notin DOMAIN windows) =>
          /\ ret' = RetOpt(None)
          /\ UNCHANGED <<selected_window, windows, size, next_window>>
          /\ calls' = <<>>]_vars

\* C7 witness: select_window returned None on a session with a selected window.
C7_Witness ==
    /\ op.name = "select_window"
    /\ ret = RetOpt(None)
    /\ IsSome(selected_window)
    /\ op.idx \notin DOMAIN windows

\* C8: select_window(id) with a live id selects id, calls resize(session size)
\* and then mark_dirty on it, once each, returns Some(id) and touches no other
\* window.
C8_SelectLive ==
    [][(op'.name = "select_window" /\ op'.idx \in DOMAIN windows) =>
          /\ selected_window' = Some(op'.idx)
          /\ calls' = <<Call(op'.idx, "resize", size),
                        Call(op'.idx, "mark_dirty", <<>>)>>
          /\ ret' = RetOpt(Some(op'.idx))
          /\ windows'[op'.idx].size = size
          /\ OthersUnchanged(op'.idx)
          /\ UNCHANGED <<size, next_window>>]_vars

\* C8 witness: a window that was not the selected one was selected while a
\* third window keeps an older size.
C8_Witness ==
    /\ op.name = "select_window"
    /\ ret = RetOpt(Some(op.idx))
    /\ IsSome(was_selected)
    /\ was_selected # Some(op.idx)
    /\ \E k \in DOMAIN windows : k # op.idx /\ windows[k].size # size

\* The resize calls of the last operation all went to the window now selected,
\* with the session's size.
ResizeCallsToSelected ==
    \A i \in 1..Len(calls) :
        calls[i].call = "resize" =>
            /\ Some(calls[i].w) = selected_window
            /\ calls[i] = Call(calls[i].w, "resize", size)

\* C9: resize(size) records the size and forwards it to the selected window
\* only; a window is resized only while it is the selected one, and a window
\* that becomes selected is resized to the session's size at that step.
C9_ResizeSelectedOnly ==
    /\ [](/\ ResizeCallsToSelected
          /\ (IsSome(selected_window) /\ selected_window # was_selected) =>
                /\ \E i \in 1..Len(calls) :
                      calls[i] = Call(Unwrap(selected_window), "resize", size)
                /\ windows[Unwrap(selected_window)].size = size)
    /\ [][op'.name = "resize" =>
            /\ size' = op'.size
            /\ selected_window' = selected_window
            /\ calls' = IF IsSome(selected_window)
                        THEN <<Call(Unwrap(selected_window), "resize", op'.size)>>
                        ELSE <<>>]_vars
    /\ [][\A k \in DOMAIN windows \cap DOMAIN windows' :
            Some(k) # selected_window' => windows'[k] = windows[k]]_vars

\* C9 witness: the session was resized while a background window stays at
\* another size.
C9_Witness ==
    /\ op.name = "resize"
    /\ ret = Ok
    /\ \E k \in DOMAIN windows :
          Some(k) # selected_window /\ windows[k].size # size

\* C10: pty_update(Byte(b)) tagged id makes one call, pty_update(b) on window
\* id, whichever window is selected; with id no key it returns WindowLost and
\* calls nothing. Either way the windows map, the selection and next_window
\* stay as they were.
C10_ByteToTaggedWindow ==
    [][(op'.name = "pty_update" /\ op'.data.tag = "Byte") =>
          /\ IF op'.idx \in DOMAIN windows
             THEN /\ calls' = <<Call(op'.idx, "pty_update", op'.data.byte)>>
                  /\ ret' = Ok
             ELSE /\ calls' = <<>>
                  /\ ret' = Err("WindowLost")
          /\ UNCHANGED <<windows, selected_window, next_window>>]_vars

\* C10 witness: a byte tagged with a removed id was refused while other
\* windows live and one is selected.
C10_Witness ==
    /\ ByteDone
    /\ ret = Err("WindowLost")
    /\ op.idx < next_window
    /\ IsSome(selected_window)

\* C11: with no window selected, receive_stdin and redraw return
\* NoSelectedWindow, call no window (so no byte is delivered and no window
\* draws to the writer) and leave the session as it was.
C11_NoSelectedWindow ==
    [][(op'.name \in {"receive_stdin", "redraw"} /\ selected_window = None) =>
          /\ ret' = Err("NoSelectedWindow")
          /\ calls' = <<>>
          /\ UNCHANGED <<selected_window, windows, size, next_window>>]_vars

\* C11 witness: redraw was refused on a session that has windows, none of
\* them selected.
C11_Witness ==
    /\ op.name = "redraw"
    /\ ret = Err("NoSelectedWindow")
    /\ selected_window = None
    /\ DOMAIN windows # {}

\* C12: new_window adds one window, under an id that is no key and was never
\* returned before, at the session size; the selection and every existing
\* window stay as they were and no window is called.
C12_NewWindowFrame ==
    [][(op'.name = "new_window" /\ ret'.tag = "Ok") =>
          /\ ret'.idx \notin DOMAIN windows
          /\ \A i \in 1..Len(issued) : issued[i] # ret'.idx
          /\ DOMAIN windows' = DOMAIN windows \cup {ret'.idx}
          /\ windows'[ret'.idx] = Window_new(size)
          /\ \A k \in DOMAIN windows : windows'[k] = windows[k]
          /\ selected_window' = selected_window
          /\ calls' = <<>>]_vars

\* C12 witness: a window was added while an older window is selected.
C12_Witness ==
    /\ op.name = "new_window"
    /\ ret.tag = "Ok"
    /\ IsSome(selected_window)
    /\ Cardinality(DOMAIN windows) >= 2

(* ----------------------------- event loop ----------------------------- *)
(* EventLoop::run (src/src/event.rs) and main's event_loop (src/src/main.rs) *)
(* are the same loop but for two places: when the PTY fan-in yields None,    *)
(* run logs and event_loop returns; after the exit banner, run returns and   *)
(* event_loop goes on. `entry` says which one runs. Each arm of the loop's   *)
(* select! is a function from the loop's state to its state after the arm.   *)
(* The keyboard and resize streams stay open.                                *)

\* The exit banner counter stops counting here ("this many or more").
BannerCap == 2

Entries == {"run", "event_loop"}

\* (Event, Vec<u8>) items of the keyboard stream: the event and its raw bytes.
PREFIX == [key |-> "Ctrl-b", raw |-> <<2>>]
KeyEvents ==
    {PREFIX, [key |-> "c", raw |-> <<99>>], [key |-> "n", raw |-> <<110>>],
     [key |-> "p", raw |-> <<112>>], [key |-> "x", raw |-> <<120>>]}

Redrawn(w) == [out |-> "redraw", w |-> w]
Banner == [out |-> "banner"]

\* The loop as one value; s is its Session with the trace of the arm that runs.
Loop ==
    [s |-> Self, entry |-> entry, pc |-> pc, manage_mode |-> manage_mode,
     dirty |-> dirty, ptys_update |-> ptys_update, ptys_done |-> ptys_done,
     wrote |-> <<>>, banners |-> banners]

\* Result::unwrap on what the session returned.
UnwrapFails(s) == s.ret.tag \in {"Err", "Panic"}

Panicked(l, s) == [l EXCEPT !.s = s, !.pc = "panicked"]

\* The items a window's stream yields.
StreamItems == PtyUpdates

\* SelectAll::push
Push(l, idx) == [l EXCEPT !.ptys_update = @ \cup {idx}, !.ptys_done = FALSE]

\* The lines of run / event_loop before the loop.
run_start(l, spawn_ok) ==
    LET s1 == new_window(l.s, spawn_ok) IN
    IF UnwrapFails(s1) THEN Panicked(l, s1)
    ELSE LET s2 == select_window(s1, s1.ret.idx) IN
         [Push(l, s1.ret.idx) EXCEPT !.s = s2, !.manage_mode = FALSE,
                                     !.dirty = TRUE, !.pc = "loop"]

\* The match on the key that follows the prefix.
\* Mutant: 'c' creates the window and leaves the selection where it was.
manage_key_noselect(l, ev, spawn_ok, io_ok) ==
    CASE ev = PREFIX ->
           LET s1 == receive_stdin(l.s, ev.raw, io_ok) IN
           IF UnwrapFails(s1) THEN Panicked(l, s1) ELSE [l EXCEPT !.s = s1]
      [] ev.key = "c" ->
           LET s1 == new_window(l.s, spawn_ok) IN
           IF UnwrapFails(s1) THEN Panicked(l, s1)
           ELSE [Push(l, s1.ret.idx) EXCEPT !.s = s1]
      [] ev.key = "n" ->
           LET idx == OrElse(next_window_idx(l.s), first_window_idx(l.s)) IN
           IF IsSome(idx)
           THEN [l EXCEPT !.s = select_window(l.s, Unwrap(idx))]
           ELSE l
      [] ev.key = "p" ->
           LET idx == OrElse(prev_window_idx(l.s), last_window_idx(l.s)) IN
           IF IsSome(idx)
           THEN [l EXCEPT !.s = select_window(l.s, Unwrap(idx))]
           ELSE l
      [] OTHER -> l

manage_key(l, ev, spawn_ok, io_ok) ==
    CASE ev = PREFIX ->
           LET s1 == receive_stdin(l.s, ev.raw, io_ok) IN
           IF UnwrapFails(s1) THEN Panicked(l, s1) ELSE [l EXCEPT !.s = s1]
      [] ev.key = "c" ->
           LET s1 == new_window(l.s, spawn_ok) IN
           IF UnwrapFails(s1) THEN Panicked(l, s1)
           ELSE [Push(l, s1.ret.idx) EXCEPT
                    !.s = select_window(s1, s1.ret.idx)]
      [] ev.key = "n" ->
           LET idx == OrElse(next_window_idx(l.s), first_window_idx(l.s)) IN
           IF IsSome(idx)
           THEN [l EXCEPT !.s = select_window(l.s, Unwrap(idx))]
           ELSE l
      [] ev.key = "p" ->
           LET idx == OrElse(prev_window_idx(l.s), last_window_idx(l.s)) IN
           IF IsSome(idx)
           THEN [l EXCEPT !.s = select_window(l.s, Unwrap(idx))]
           ELSE l
      [] OTHER -> l

\* Mutant: an unbound key leaves management mode on.
on_input_manage_sticky(l, ev, spawn_ok, io_ok) ==
    LET after == manage_key(l, ev, spawn_ok, io_ok) IN
    IF after.pc = "panicked" THEN after
    ELSE [after EXCEPT !.manage_mode = (ev.key = "x"), !.dirty = TRUE]

\* input = self.input.next(), manage_mode set.
on_input_manage(l, ev, spawn_ok, io_ok) ==
    LET after == manage_key(l, ev, spawn_ok, io_ok) IN
    IF after.pc = "panicked" THEN after
    ELSE [after EXCEPT !.manage_mode = FALSE, !.dirty = TRUE]

\* Mutant: the prefix is passed on to the window as well.
on_input_plain_echo(l, ev, io_ok) ==
    LET s1 == receive_stdin(l.s, ev.raw, io_ok) IN
    IF UnwrapFails(s1) THEN Panicked(l, s1)
    ELSE [l EXCEPT !.s = s1, !.manage_mode = (ev = PREFIX)]

\* input = self.input.next(), manage_mode clear.
on_input_plain(l, ev, io_ok) ==
    IF ev = PREFIX THEN [l EXCEPT !.manage_mode = TRUE]
    ELSE LET s1 == receive_stdin(l.s, ev.raw, io_ok) IN
         IF UnwrapFails(s1) THEN Panicked(l, s1) ELSE [l EXCEPT !.s = s1]

on_input(l, ev, spawn_ok, io_ok) ==
    IF l.manage_mode THEN on_input_manage(l, ev, spawn_ok, io_ok)
    ELSE on_input_plain(l, ev, io_ok)

\* Mutant: a stream that has yielded Exited stays in the fan-in.
StreamYielded_open(l, window_idx, data) == l

\* The stream of a window after it has yielded data: the producer closes the
\* channel after Exited, and the ended stream leaves the fan-in.
StreamYielded(l, window_idx, data) ==
    IF data = Exited THEN [l EXCEPT !.ptys_update = @ \ {window_idx}] ELSE l

\* pty_update = ptys_update.next(), Some(update).
on_pty_update(l, window_idx, data) ==
    LET s1 == pty_update(l.s, window_idx, data)
        l1 == StreamYielded(l, window_idx, data)
    IN IF UnwrapFails(s1) THEN Panicked(l1, s1)
       ELSE [l1 EXCEPT !.s = s1, !.dirty = TRUE]

\* pty_update = ptys_update.next(), None: the fan-in is empty.
on_pty_none(l) ==
    IF l.entry = "event_loop" THEN [l EXCEPT !.ptys_done = TRUE, !.pc = "returned"]
    ELSE [l EXCEPT !.ptys_done = TRUE]

\* _ = self.resize.next()
on_resize(l, sz) ==
    LET s1 == resize(l.s, sz) IN
    IF UnwrapFails(s1) THEN Panicked(l, s1)
    ELSE [l EXCEPT !.s = s1, !.dirty = TRUE]

\* Mutant: every tick redraws, dirty or not.
on_timer_always(l) ==
    LET s1 == redraw(l.s) IN
    IF s1.ret = Ok
    THEN [l EXCEPT !.s = s1,
                   !.wrote = <<Redrawn(Unwrap(s1.selected_window))>>,
                   !.dirty = FALSE]
    ELSE IF s1.ret = Err("NoSelectedWindow")
    THEN LET l1 == [l EXCEPT !.s = s1, !.wrote = <<Banner>>,
                             !.banners = IF @ < BannerCap THEN @ + 1 ELSE @]
         IN IF l.entry = "run" THEN [l1 EXCEPT !.pc = "returned"]
            ELSE [l1 EXCEPT !.dirty = FALSE]
    ELSE Panicked(l, s1)

\* _ = redraw_timer.next()
on_timer(l) ==
    IF ~l.dirty THEN l
    ELSE LET s1 == redraw(l.s) IN
         IF s1.ret = Ok
         THEN [l EXCEPT !.s = s1,
                        !.wrote = <<Redrawn(Unwrap(s1.selected_window))>>,
                        !.dirty = FALSE]
         ELSE IF s1.ret = Err("NoSelectedWindow")
         THEN LET l1 == [l EXCEPT !.s = s1, !.wrote = <<Banner>>,
                                  !.banners = IF @ < BannerCap THEN @ + 1 ELSE @]
              IN IF l.entry = "run" THEN [l1 EXCEPT !.pc = "returned"]
                 ELSE [l1 EXCEPT !.dirty = FALSE]
         ELSE Panicked(l, s1)

\* The loop after an arm has run.
LoopBecomes(l) ==
    /\ Becomes(l.s)
    /\ issued' = IF next_window < l.s.next_window
                 THEN Append(issued, next_window) ELSE issued
    /\ pc' = l.pc
    /\ manage_mode' = l.manage_mode
    /\ dirty' = l.dirty
    /\ ptys_update' = l.ptys_update
    /\ ptys_done' = l.ptys_done
    /\ wrote' = l.wrote
    /\ banners' = l.banners
    /\ UNCHANGED entry

InitLoop ==
    \E sz \in WinSizes, e \in Entries :
        /\ next_window = Session_new(sz).next_window
        /\ selected_window = Session_new(sz).selected_window
        /\ windows = Session_new(sz).windows
        /\ size = Session_new(sz).size
        /\ calls = <<>>
        /\ ret = NoRet
        /\ op = [name |-> "new"]
        /\ issued = <<>>
        /\ was_selected = None
        /\ entry = e
        /\ pc = "start"
        /\ manage_mode = FALSE
        /\ dirty = FALSE
        /\ ptys_update = {}
        /\ ptys_done = FALSE
        /\ wrote = <<>>
        /\ banners = 0
        /\ NoGrid

Start ==
    /\ pc = "start"
    /\ \E spawn_ok \in BOOLEAN :
        /\ LoopBecomes(run_start(Loop, spawn_ok))
        /\ op' = [name |-> "start"]

Input ==
    /\ pc = "loop"
    /\ \E ev \in KeyEvents, spawn_ok \in BOOLEAN, io_ok \in BOOLEAN :
        /\ (manage_mode /\ ev.key = "c") => next_window < MaxWindows
        /\ LoopBecomes(on_input(Loop, ev, spawn_ok, io_ok))
        /\ op' = [name |-> "input", ev |-> ev, manage |-> manage_mode]

PtyItem ==
    /\ pc = "loop"
    /\ \E window_idx \in ptys_update, data \in StreamItems :
        /\ LoopBecomes(on_pty_update(Loop, window_idx, data))
        /\ op' = [name |-> "pty", idx |-> window_idx, data |-> data]

PtyNone ==
    /\ pc = "loop"
    /\ ptys_update = {}
    /\ ~ptys_done
    /\ LoopBecomes(on_pty_none(Loop))
    /\ op' = [name |-> "pty_none"]

Sigwinch ==
    /\ pc = "loop"
    /\ \E sz \in WinSizes :
        /\ LoopBecomes(on_resize(Loop, sz))
        /\ op' = [name |-> "sigwinch", size |-> sz]

Timer ==
    /\ pc = "loop"
    /\ LoopBecomes(on_timer(Loop))
    /\ op' = [name |-> "timer", dirty |-> dirty]

NextLoop ==
    \/ Start
    \/ Input
    \/ PtyItem
    \/ PtyNone
    \/ Sigwinch
    \/ Timer

SpecLoop == InitLoop /\ [][NextLoop]_vars

\* The redraw timer is rearmed at the end of every tick and keeps firing.
SpecLoopFair == SpecLoop /\ WF_vars(Timer)

(* -------------------------- event loop claims ------------------------- *)

\* The step is the keyboard arm, and the loop goes on after it.
InputStep == pc = "loop" /\ op'.name = "input" /\ pc' = "loop"

\* The receive_stdin calls among a sequence of window calls.
StdinCalls(cs) == SelectSeq(cs, LAMBDA c : c.call = "receive_stdin")

\* C13: management mode is entered only by a Ctrl-B received while it is off;
\* the keyboard event after it, whatever it is, leaves manage_mode false and
\* dirty true; PTY, resize and timer events leave manage_mode alone.
C13_ManageModeOneKey ==
    [][/\ (~manage_mode /\ manage_mode') =>
            (op'.name = "input" /\ op'.ev = PREFIX)
       /\ (InputStep /\ ~manage_mode /\ op'.ev = PREFIX) => manage_mode'
       /\ (InputStep /\ ~manage_mode /\ op'.ev # PREFIX) => ~manage_mode'
       /\ (InputStep /\ manage_mode) => (~manage_mode' /\ dirty')
       /\ op'.name \in {"pty", "pty_none", "sigwinch", "timer"} =>
            manage_mode' = manage_mode]_vars

\* C13 witness: an unbound key ended management mode.
C13_Witness ==
    /\ pc = "loop"
    /\ op.name = "input"
    /\ op.manage
    /\ op.ev.key = "x"
    /\ ~manage_mode
    /\ dirty

\* C14: outside management mode every event but Ctrl-B is passed, raw bytes
\* and all, to the selected window in one receive_stdin call, and Ctrl-B is
\* passed to no window; inside it Ctrl-B is passed once to the selected window
\* and c, n, p and unbound keys are passed to no window.
C14_KeyboardPassThrough ==
    [][(pc = "loop" /\ op'.name = "input") =>
          IF manage_mode = (op'.ev = PREFIX)
          THEN StdinCalls(calls') =
                 IF IsSome(selected_window)
                 THEN <<Call(Unwrap(selected_window), "receive_stdin", op'.ev.raw)>>
                 ELSE <<>>
          ELSE StdinCalls(calls') = <<>>]_vars

\* C14 witness: the second Ctrl-B reached the selected window, which is not
\* the only one.
C14_Witness ==
    /\ pc = "loop"
    /\ op.name = "input"
    /\ op.manage
    /\ op.ev = PREFIX
    /\ IsSome(selected_window)
    /\ calls = <<Call(Unwrap(selected_window), "receive_stdin", PREFIX.raw)>>
    /\ Cardinality(DOMAIN windows) >= 2

\* C15: prefix then 'c' adds one window under the id next_window, puts its
\* stream in the fan-in and selects it; the new id is the greatest key and the
\* earlier windows are still there, unchanged.
C15_PrefixCreate ==
    [][(InputStep /\ manage_mode /\ op'.ev.key = "c") =>
          /\ next_window \notin DOMAIN windows
          /\ DOMAIN windows' = DOMAIN windows \cup {next_window}
          /\ ptys_update' = ptys_update \cup {next_window}
          /\ ~ptys_done'
          /\ selected_window' = Some(next_window)
          /\ \A k \in DOMAIN windows' : k <= next_window
          /\ \A k \in DOMAIN windows : windows'[k] = windows[k]]_vars

\* C15 witness: a third window was created and selected while an older window
\* was selected.
C15_Witness ==
    /\ pc = "loop"
    /\ op.name = "input"
    /\ op.manage
    /\ op.ev.key = "c"
    /\ Cardinality(DOMAIN windows) >= 3
    /\ IsSome(was_selected)
    /\ selected_window = Some(SetMax(DOMAIN windows))
    /\ selected_window # was_selected

\* C16: prefix then 'n' selects the smallest id above the selected one, or the
\* smallest id of all when there is none; prefix then 'p' the greatest id
\* below it, or the greatest of all; neither adds or removes a window or a
\* stream.
C16_PrefixCycle ==
    [][(InputStep /\ manage_mode /\ op'.ev.key \in {"n", "p"}) =>
          /\ DOMAIN windows' = DOMAIN windows
          /\ ptys_update' = ptys_update
          /\ next_window' = next_window
          /\ IsSome(selected_window) =>
               LET sel == Unwrap(selected_window)
                   above == {k \in DOMAIN windows : k > sel}
                   below == {k \in DOMAIN windows : k < sel}
               IN selected_window' =
                    IF op'.ev.key = "n"
                    THEN Some(IF above # {} THEN SetMin(above)
                              ELSE SetMin(DOMAIN windows))
                    ELSE Some(IF below # {} THEN SetMax(below)
                              ELSE SetMax(DOMAIN windows))]_vars

\* C16 witness: 'p' on the last of three windows.
C16_Witness ==
    /\ pc = "loop"
    /\ op.name = "input"
    /\ op.manage
    /\ op.ev.key = "p"
    /\ Cardinality(DOMAIN windows) >= 3
    /\ was_selected = Some(SetMax(DOMAIN windows))
    /\ selected_window # was_selected

\* C17: the terminal is written, and a window's redraw is called, only on a
\* timer tick that finds dirty true; a tick that redraws leaves dirty false
\* and writes one redraw; dirty becomes true again only by a keyboard, PTY or
\* resize event, so a tick with no event since the last redraw writes nothing.
C17_RedrawOnDirtyTick ==
    [][/\ (wrote' # <<>> \/ \E i \in 1..Len(calls') : calls'[i].call = "redraw") =>
            (op'.name = "timer" /\ dirty)
       /\ (pc = "loop" /\ op'.name = "timer" /\ ~dirty) =>
            (wrote' = <<>> /\ calls' = <<>> /\ ~dirty')
       /\ (pc = "loop" /\ op'.name = "timer" /\ dirty /\ IsSome(selected_window)) =>
            /\ wrote' = <<Redrawn(Unwrap(selected_window))>>
            /\ calls' = <<Call(Unwrap(selected_window), "redraw", <<>>)>>
            /\ ~dirty'
       /\ (pc = "loop" /\ ~dirty /\ dirty') =>
            op'.name \in {"input", "pty", "sigwinch"}]_vars

\* C17 witness: a tick found dirty false after a redraw and wrote nothing.
C17_Witness ==
    /\ pc = "loop"
    /\ op.name = "timer"
    /\ ~op.dirty
    /\ wrote = <<>>
    /\ IsSome(selected_window)

\* C18 as stated: a mutation leaves dirty true, and with the timer firing
\* every mutation is in the end followed by a write to the terminal (read
\* generously: the redraw of the selected window, or the exit banner when no
\* window is left).
C18_MutationRedrawn ==
    /\ [][(pc = "loop" /\ pc' = "loop" /\
           (op'.name \in {"pty", "sigwinch"} \/ (op'.name = "input" /\ manage_mode)))
             => dirty']_vars
    /\ (pc = "loop" /\ dirty /\ op.name \in {"pty", "sigwinch"}) ~> (wrote # <<>>)

\* C19 as stated: when the loop is over and every window has exited, it has
\* returned (not aborted) and the exit banner was written exactly once.
C19_BannerOnceAtExit ==
    (/\ pc \in {"returned", "panicked"}
     /\ issued # <<>>
     /\ DOMAIN windows = {}) =>
        (pc = "returned" /\ banners = 1)

\* C20 as stated: a keystroke that reaches the loop while no window is selected
\* does not abort it.
C20_KeyWithoutWindowNoAbort ==
    (/\ op.name = "input"
     /\ was_selected = None
     /\ ret = Err("NoSelectedWindow")) => pc # "panicked"

C22_SpawnFailureLogged ==
    [][(/\ pc = "loop"
        /\ op'.name = "input"
        /\ manage_mode
        /\ op'.ev.key = "c"
        /\ next_window' = next_window) =>
            (/\ pc' = "loop"
             /\ windows' = windows
             /\ selected_window' = selected_window)]_vars


(* ------------------------------- Grid ---------------------------------- *)

\* The greatest count or coordinate a handler call is given.
MaxCount == 2

\* The tab stops a cursor is taken through.
MaxTabs == 1

\* The sizes a Grid is created with and resized to: (width, height).
GridSizes == {[width |-> w, height |-> h] : w \in {1, 2}, h \in {1, 2}}

\* u16 arithmetic: one past u16::MAX.
U16 == 65536

\* The characters written and the colours set.
Chars == {"a"}
Colors == {"Blue"}

Counts == 0..MaxCount

\* Cell::default()
Cell_default == [c |-> ".", bg |-> "Background", fg |-> "Foreground"]

\* CursorPos::at(col, row)
CursorPos_at(col, row) == [col |-> col, row |-> row]

\* Ord for CursorPos: by row, then by column.
CursorPos_lt(p, q) == p.row < q.row \/ (p.row = q.row /\ p.col < q.col)

\* Row::new(cols, fill)
Row_new(cols, fill) == [col \in 0..(cols - 1) |-> fill]

\* GridBuffer::new(cols, rows, fill)
GridBuffer_new(cols, rows, fill) == [row \in 0..(rows - 1) |-> Row_new(cols, fill)]

\* Grid::new(width, height). overflow_checks is the build profile: arithmetic
\* overflow panics when it is set and wraps when it is not. fault is "none"
\* until a call panics.
Grid_new(width, height, overflow_checks) ==
    [cursor |-> CursorPos_at(0, 0),
     saved_cursor |-> CursorPos_at(0, 0),
     scrolling_region |-> [start |-> 0, end |-> height],
     width |-> width,
     height |-> height,
     buffer |-> GridBuffer_new(width, height, Cell_default),
     dirty_rows |-> 0..(height - 1),
     sgr_template |-> Cell_default,
     overflow_checks |-> overflow_checks,
     fault |-> "none"]

\* A panic: indexing past the end of a Vec, or arithmetic overflow.
Fault(g, kind) == [g EXCEPT !.fault = kind]

Faulted(g) == g.fault # "none"

\* Index<CursorPos> for GridBuffer does not panic at pos.
InBuffer(g, pos) == pos.row < g.height /\ pos.col < g.width

Min(a, b) == IF a < b THEN a ELSE b
Max(a, b) == IF a > b THEN a ELSE b

\* Grid::mark_all_dirty
mark_all_dirty(g) == [g EXCEPT !.dirty_rows = 0..(g.height - 1)]

\* Grid::cell_at
cell_at(g, pos) == g.buffer[pos.row][pos.col]

\* Displace
Absolute(offset) == [kind |-> "Absolute", offset |-> offset]
Relative(offset) == [kind |-> "Relative", offset |-> offset]
ToStart == [kind |-> "ToStart", offset |-> 0]
ToTabStop == [kind |-> "ToTabStop", offset |-> 0]

\* Grid::move_horizontal; (col + 8) & !7 is the next multiple of 8.
move_horizontal(g, displacement) ==
    [g EXCEPT !.cursor.col =
        CASE displacement.kind = "Absolute" ->
               Max(0, Min(g.width - 1, displacement.offset))
          [] displacement.kind = "Relative" ->
               Max(0, Min(g.width - 1, g.cursor.col + displacement.offset))
          [] displacement.kind = "ToStart" -> 0
          [] displacement.kind = "ToTabStop" -> ((g.cursor.col + 8) \div 8) * 8]

\* Grid::move_vertical
move_vertical(g, displacement) ==
    [g EXCEPT !.cursor.row =
        CASE displacement.kind = "Absolute" ->
               Max(0, Min(g.height - 1, displacement.offset))
          [] displacement.kind = "Relative" ->
               Max(0, Min(g.height - 1, g.cursor.row + displacement.offset))
          [] displacement.kind = "ToStart" -> 0
          [] displacement.kind = "ToTabStop" -> g.cursor.row]

\* The rows start..end-1 do not all lie in the buffer.
RowsOutside(g, start, end) == g.width > 0 /\ start < end /\ end > g.height

\* Grid::scroll_up_in_region: each row takes the row `lines` below it, rows
\* going up; the row read has not been written yet.
scroll_up_in_region(g, start, end, lines) ==
    IF lines < 1 THEN g
    ELSE IF RowsOutside(g, start, end)
    THEN Fault([g EXCEPT !.dirty_rows = @ \cup {Max(start, g.height)}], "index")
    ELSE [g EXCEPT
            !.buffer = [row \in DOMAIN g.buffer |->
                          IF row >= start /\ row < end
                          THEN IF row + lines < end
                               THEN g.buffer[row + lines]
                               ELSE Row_new(g.width, Cell_default)
                          ELSE g.buffer[row]],
            !.dirty_rows = @ \cup {row \in DOMAIN g.buffer : row >= start /\ row < end}]

\* Mutant: off by one, the first row that should be pulled down is blanked.
scroll_down_in_region_late(g, start, end, lines) ==
    IF lines < 1 THEN g
    ELSE IF RowsOutside(g, start, end)
    THEN Fault([g EXCEPT !.dirty_rows = @ \cup {end - 1}], "index")
    ELSE [g EXCEPT
            !.buffer = [row \in DOMAIN g.buffer |->
                          IF row >= start /\ row < end
                          THEN IF row > lines + start
                               THEN g.buffer[row - lines]
                               ELSE Row_new(g.width, Cell_default)
                          ELSE g.buffer[row]],
            !.dirty_rows = @ \cup {row \in DOMAIN g.buffer : row >= start /\ row < end}]

\* Grid::scroll_down_in_region: each row takes the row `lines` above it, rows
\* going down from the last; the row read has not been written yet.
scroll_down_in_region(g, start, end, lines) ==
    IF lines < 1 THEN g
    ELSE IF RowsOutside(g, start, end)
    THEN Fault([g EXCEPT !.dirty_rows = @ \cup {end - 1}], "index")
    ELSE [g EXCEPT
            !.buffer = [row \in DOMAIN g.buffer |->
                          IF row >= start /\ row < end
                          THEN IF row >= lines + start
                               THEN g.buffer[row - lines]
                               ELSE Row_new(g.width, Cell_default)
                          ELSE g.buffer[row]],
            !.dirty_rows = @ \cup {row \in DOMAIN g.buffer : row >= start /\ row < end}]

\* Handler::carriage_return
carriage_return(g) == move_horizontal(g, ToStart)

\* Handler::scroll_up
scroll_up(g, rows) ==
    scroll_up_in_region(g, g.scrolling_region.start, g.scrolling_region.end, rows)

\* Handler::scroll_down
scroll_down(g, rows) ==
    scroll_down_in_region(g, g.scrolling_region.start, g.scrolling_region.end, rows)

\* Grid::cell_at_mut followed by the store: the row is marked dirty, then the
\* buffer is indexed.
SetCell(g, pos, cell) ==
    IF InBuffer(g, pos)
    THEN [g EXCEPT !.dirty_rows = @ \cup {pos.row},
                   !.buffer[pos.row][pos.col] = cell]
    ELSE Fault([g EXCEPT !.dirty_rows = @ \cup {pos.row}], "index")

\* Handler::input, after the pending scroll: the cell is written and the
\* cursor advances, wrapping to the next row after the last column.
input_write(g, c) ==
    LET g1 == SetCell(g, g.cursor, [g.sgr_template EXCEPT !.c = c]) IN
    IF Faulted(g1) THEN g1
    ELSE IF g1.cursor.col + 1 = g1.width
    THEN carriage_return([g1 EXCEPT !.cursor.col = @ + 1, !.cursor.row = @ + 1])
    ELSE [g1 EXCEPT !.cursor.col = @ + 1]

\* Mutant: at the pending-wrap position the cursor goes back to the last row
\* and the region is not scrolled.
input_unscrolled(g, c) ==
    IF g.cursor = CursorPos_at(0, g.scrolling_region.end)
    THEN IF g.cursor.row = 0
         THEN IF g.overflow_checks THEN Fault(g, "overflow")
              ELSE input_write([g EXCEPT !.cursor.row = U16 - 1], c)
         ELSE input_write([g EXCEPT !.cursor.row = @ - 1], c)
    ELSE input_write(g, c)

\* Handler::input
input(g, c) ==
    IF g.cursor = CursorPos_at(0, g.scrolling_region.end)
    THEN LET g1 == scroll_up(g, 1) IN
         IF Faulted(g1) THEN g1
         ELSE IF g1.cursor.row = 0
         THEN IF g1.overflow_checks THEN Fault(g1, "overflow")
              ELSE input_write([g1 EXCEPT !.cursor.row = U16 - 1], c)
         ELSE input_write([g1 EXCEPT !.cursor.row = @ - 1], c)
    ELSE input_write(g, c)

\* Handler::goto
goto(g, row, col) == move_vertical(move_horizontal(g, Absolute(col)), Absolute(row))

\* Handler::goto_line
goto_line(g, row) == move_vertical(g, Absolute(row))

\* Handler::goto_col
goto_col(g, col) == move_horizontal(g, Absolute(col))

\* Handler::insert_blank: the tail of the row moves right, columns going down
\* from the last; the cell read has not been written yet.
insert_blank(g, cols) ==
    IF cols < 1 \/ g.cursor.col >= g.width THEN g
    ELSE IF g.cursor.row >= g.height
    THEN Fault([g EXCEPT !.dirty_rows = @ \cup {g.cursor.row}], "index")
    ELSE [g EXCEPT
            !.dirty_rows = @ \cup {g.cursor.row},
            !.buffer[g.cursor.row] =
                [col \in DOMAIN @ |->
                    IF col < g.cursor.col THEN @[col]
                    ELSE IF col >= cols + g.cursor.col THEN @[col - cols]
                    ELSE Cell_default]]

\* Handler::move_up
move_up(g, rows) == move_vertical(g, Relative(-rows))

\* Handler::move_down
move_down(g, rows) == move_vertical(g, Relative(rows))

\* Handler::move_forward
move_forward(g, cols) == move_horizontal(g, Relative(cols))

\* Handler::move_backward
move_backward(g, cols) == move_horizontal(g, Relative(-cols))

\* Handler::move_down_and_cr
move_down_and_cr(g, rows) == move_horizontal(move_vertical(g, Relative(rows)), ToStart)

\* Handler::move_up_and_cr
move_up_and_cr(g, rows) == move_horizontal(move_vertical(g, Relative(-rows)), ToStart)

\* Handler::put_tab and Handler::move_forward_tabs: count times to the tab stop.
RECURSIVE put_tab(_, _)
put_tab(g, count) ==
    IF count <= 0 THEN g ELSE put_tab(move_horizontal(g, ToTabStop), count - 1)

move_forward_tabs(g, count) == put_tab(g, count)

\* Handler::move_backward_tabs
move_backward_tabs(g, count) == g

\* Handler::backspace
backspace(g) == move_horizontal(g, Relative(-1))

\* cursor.row + 1 in u16.
RowPlusOne(g) == (g.cursor.row + 1) % U16

\* Mutant: on the last row of the region the cursor moves down as well.
linefeed_down(g) ==
    IF g.cursor.row + 1 = U16 /\ g.overflow_checks THEN Fault(g, "overflow")
    ELSE IF RowPlusOne(g) = g.scrolling_region.end
    THEN LET s == scroll_up(g, 1) IN
         IF RowPlusOne(g) < g.height THEN [s EXCEPT !.cursor.row = RowPlusOne(g)]
         ELSE s
    ELSE IF RowPlusOne(g) < g.height THEN [g EXCEPT !.cursor.row = RowPlusOne(g)]
    ELSE g

\* Handler::linefeed
linefeed(g) ==
    IF g.cursor.row + 1 = U16 /\ g.overflow_checks THEN Fault(g, "overflow")
    ELSE IF RowPlusOne(g) = g.scrolling_region.end THEN scroll_up(g, 1)
    ELSE IF RowPlusOne(g) < g.height THEN [g EXCEPT !.cursor.row = RowPlusOne(g)]
    ELSE g

\* Handler::newline
newline(g) == linefeed(g)

\* Range<u16>::contains
RegionContains(g, row) == g.scrolling_region.start <= row /\ row < g.scrolling_region.end

\* Mutant: the lines are inserted at the top of the region.
insert_blank_lines_top(g, rows) ==
    IF ~RegionContains(g, g.cursor.row) THEN g
    ELSE scroll_down_in_region(g, g.scrolling_region.start, g.scrolling_region.end, rows)

\* Handler::insert_blank_lines
insert_blank_lines(g, rows) ==
    IF ~RegionContains(g, g.cursor.row) THEN g
    ELSE scroll_down_in_region(g, g.cursor.row, g.scrolling_region.end, rows)

\* Handler::delete_lines
delete_lines(g, rows) ==
    IF ~RegionContains(g, g.cursor.row) THEN g
    ELSE scroll_up_in_region(g, g.cursor.row, g.scrolling_region.end, rows)

\* Handler::erase_chars
erase_chars(g, cols) ==
    IF cols < 1 \/ g.cursor.col >= g.width THEN g
    ELSE IF g.cursor.row >= g.height
    THEN Fault([g EXCEPT !.dirty_rows = @ \cup {g.cursor.row}], "index")
    ELSE [g EXCEPT
            !.dirty_rows = @ \cup {g.cursor.row},
            !.buffer[g.cursor.row] =
                [col \in DOMAIN @ |->
                    IF col >= g.cursor.col /\ col < g.cursor.col + cols
                    THEN Cell_default ELSE @[col]]]

\* Handler::delete_chars: the tail of the row moves left, columns going up;
\* the cell read has not been written yet.
delete_chars(g, cols) ==
    IF g.cursor.col >= g.width THEN g
    ELSE IF g.cursor.row >= g.height
    THEN Fault([g EXCEPT !.dirty_rows = @ \cup {g.cursor.row}], "index")
    ELSE [g EXCEPT
            !.dirty_rows = @ \cup {g.cursor.row},
            !.buffer[g.cursor.row] =
                [col \in DOMAIN @ |->
                    IF col < g.cursor.col THEN @[col]
                    ELSE IF col + cols < g.width THEN @[col + cols]
                    ELSE Cell_default]]

\* Handler::save_cursor_position
save_cursor_position(g) == [g EXCEPT !.saved_cursor = g.cursor]

\* Mutant: the restored cursor goes to the start of the saved row.
restore_cursor_position_cr(g) ==
    [g EXCEPT !.cursor = CursorPos_at(0, g.saved_cursor.row)]

\* Handler::restore_cursor_position
restore_cursor_position(g) == [g EXCEPT !.cursor = g.saved_cursor]

LineClearModes == {"All", "Left", "Right"}

\* Mutant: the row is cleared and not marked dirty.
clear_line_unmarked(g, mode) ==
    LET from == IF mode = "Right" THEN g.cursor.col ELSE 0
        to == IF mode = "Left" THEN g.cursor.col ELSE g.width
    IN IF g.cursor.row >= g.height \/ from > to \/ to > g.width
       THEN Fault(g, "index")
       ELSE [g EXCEPT !.buffer[g.cursor.row] =
                [col \in DOMAIN @ |->
                    IF col >= from /\ col < to THEN Cell_default ELSE @[col]]]

\* Handler::clear_line: the row is marked dirty, then rows[cursor.row] and the
\* column range are indexed.
clear_line(g, mode) ==
    LET from == IF mode = "Right" THEN g.cursor.col ELSE 0
        to == IF mode = "Left" THEN g.cursor.col ELSE g.width
        g1 == [g EXCEPT !.dirty_rows = @ \cup {g.cursor.row}]
    IN IF g.cursor.row >= g.height \/ from > to \/ to > g.width
       THEN Fault(g1, "index")
       ELSE [g1 EXCEPT !.buffer[g.cursor.row] =
                [col \in DOMAIN @ |->
                    IF col >= from /\ col < to THEN Cell_default ELSE @[col]]]

ClearModes == {"All", "Saved", "Above", "Below"}

\* Handler::clear_screen: the cells of rows range.start.row ..= range.end.row
\* that the range of positions contains (no row past `height` need be looked
\* at to know whether one outside the buffer is among them).
clear_screen(g, mode) ==
    LET from == IF mode = "Below" THEN g.cursor ELSE CursorPos_at(0, 0)
        to == IF mode = "Above" THEN g.cursor ELSE CursorPos_at(0, g.height)
        Cleared(col, row) ==
            /\ row >= from.row
            /\ row <= to.row
            /\ ~CursorPos_lt(CursorPos_at(col, row), from)
            /\ CursorPos_lt(CursorPos_at(col, row), to)
        touched == {row \in from.row..Min(to.row, g.height) :
                        \E col \in 0..(g.width - 1) : Cleared(col, row)}
    IN IF \E row \in touched : row >= g.height
       THEN Fault([g EXCEPT !.dirty_rows = @ \cup {g.height}], "index")
       ELSE [g EXCEPT
               !.dirty_rows = @ \cup touched,
               !.buffer = [row \in DOMAIN @ |-> [col \in DOMAIN @[row] |->
                              IF Cleared(col, row) THEN Cell_default
                              ELSE @[row][col]]]]

\* Handler::reverse_index
reverse_index(g) ==
    IF g.cursor.row = g.scrolling_region.start THEN scroll_down(g, 1)
    ELSE IF g.cursor.row = 0
    THEN IF g.overflow_checks THEN Fault(g, "overflow")
         ELSE [g EXCEPT !.cursor.row = U16 - 1]
    ELSE [g EXCEPT !.cursor.row = @ - 1]

\* Attr
Attrs == {[attr |-> "Reset"]} \cup
         {[attr |-> "Foreground", color |-> c] : c \in Colors} \cup
         {[attr |-> "Background", color |-> c] : c \in Colors}

\* Handler::terminal_attribute
terminal_attribute(g, attr) ==
    CASE attr.attr = "Reset" -> [g EXCEPT !.sgr_template = Cell_default]
      [] attr.attr = "Foreground" -> [g EXCEPT !.sgr_template.fg = attr.color]
      [] attr.attr = "Background" -> [g EXCEPT !.sgr_template.bg = attr.color]
      [] OTHER -> g

\* Handler::set_scrolling_region; top is 1-indexed and at least 1.
set_scrolling_region(g, top, bottom) ==
    LET b == IF IsSome(bottom) THEN Unwrap(bottom) ELSE g.height IN
    goto([g EXCEPT !.scrolling_region = [start |-> top - 1,
                                         end |-> Min(b, g.height)]], 0, 0)

\* Grid::draw: every dirty row is read from the buffer and written, then the
\* cursor position (1 + col, 1 + row in u16).
draw(g) ==
    IF \E row \in g.dirty_rows : row >= g.height THEN Fault(g, "index")
    ELSE IF g.cursor.row + 1 = U16 /\ g.overflow_checks THEN Fault(g, "overflow")
    ELSE [g EXCEPT !.dirty_rows = {}]

\* Vec::resize on the rows and on each row: new cells are Cell::default().
BufferResized(buffer, old_width, new_width, new_height) ==
    [row \in 0..(new_height - 1) |-> [col \in 0..(new_width - 1) |->
        IF row \in DOMAIN buffer /\ col < old_width THEN buffer[row][col]
        ELSE Cell_default]]

\* Grid::resize, lines 221-233: a shorter grid scrolls the rows above the
\* cursor off the top.
resize_shorter(g, new_height) ==
    IF new_height >= g.height THEN g
    ELSE IF g.cursor.col # 0 /\ g.cursor.row + 1 = U16 /\ g.overflow_checks
    THEN Fault(g, "overflow")
    ELSE LET end == IF g.cursor.col = 0 THEN g.cursor.row ELSE RowPlusOne(g)
             g1 == IF end > new_height
                   THEN LET s == scroll_up_in_region(g, 0, end, end - new_height) IN
                        IF Faulted(s) THEN s
                        ELSE [s EXCEPT !.cursor.row = @ - (end - new_height)]
                   ELSE g
         IN IF Faulted(g1) THEN g1
            ELSE [g1 EXCEPT
                    !.scrolling_region.end = Min(@, new_height),
                    !.saved_cursor.row = Min(@, new_height - 1)]

\* Grid::resize, lines 242-245: the clamp for a narrower grid.
resize_narrower(g, new_width) ==
    IF new_width < g.width
    THEN [g EXCEPT !.cursor.row = Min(@, new_width - 1),
                   !.saved_cursor.row = Min(@, new_width - 1)]
    ELSE g

\* Mutant: the new cells take the SGR template instead of the default cell.
Grid_resize_template(g, new_width, new_height) ==
    LET g1 == resize_shorter(g, new_height) IN
    IF Faulted(g1) THEN g1
    ELSE LET g2 == IF g1.height < new_height /\ g1.scrolling_region.end = g1.height
                   THEN [g1 EXCEPT !.scrolling_region.end = new_height]
                   ELSE g1
             g3 == resize_narrower([g2 EXCEPT !.height = new_height], new_width)
         IN mark_all_dirty(
              [g3 EXCEPT !.width = new_width,
                         !.buffer = [row \in 0..(new_height - 1) |->
                                      [col \in 0..(new_width - 1) |->
                                        IF row \in DOMAIN g3.buffer /\ col < g3.width
                                        THEN g3.buffer[row][col]
                                        ELSE [g3.sgr_template EXCEPT !.c = "."]]]])

\* Grid::resize
Grid_resize(g, new_width, new_height) ==
    LET g1 == resize_shorter(g, new_height) IN
    IF Faulted(g1) THEN g1
    ELSE LET g2 == IF g1.height < new_height /\ g1.scrolling_region.end = g1.height
                   THEN [g1 EXCEPT !.scrolling_region.end = new_height]
                   ELSE g1
             g3 == resize_narrower([g2 EXCEPT !.height = new_height], new_width)
         IN mark_all_dirty(
              [g3 EXCEPT !.width = new_width,
                         !.buffer = BufferResized(g3.buffer, g3.width, new_width,
                                                  new_height)])

(* ---------------------------- Grid actions ----------------------------- *)

\* No Session and no event loop: the Grid is driven as the tests of grid.rs
\* drive it.
NoSession ==
    /\ next_window = 0
    /\ selected_window = None
    /\ windows = <<>>
    /\ size = <<>>
    /\ calls = <<>>
    /\ ret = NoRet
    /\ issued = <<>>
    /\ was_selected = None
    /\ NoLoop

\* The Grid after a call; a Grid whose call panicked is called no more. op is
\* the kind of call: a call of the Handler trait other than save and restore is
\* "handler".
GridBecomes(g, o) ==
    /\ grid.fault = "none"
    /\ grid' = g
    /\ op' = o
    /\ snap' = <<>>
    /\ UNCHANGED <<next_window, selected_window, windows, size, calls, ret,
                   issued, was_selected, loop_vars>>

\* Grid::new in a build of the given profiles.
InitGridIn(profiles, sizes) ==
    \E sz \in sizes, overflow_checks \in profiles :
        /\ grid = Grid_new(sz.width, sz.height, overflow_checks)
        /\ snap = <<>>
        /\ op = [name |-> "new"]
        /\ NoSession

InitGrid == InitGridIn(BOOLEAN, GridSizes)

Do_input ==
    \E c \in Chars : GridBecomes(input(grid, c), [name |-> "handler"])

Do_goto ==
    \E row \in Counts, col \in Counts :
        GridBecomes(goto(grid, row, col), [name |-> "handler"])

Do_goto_line ==
    \E row \in Counts : GridBecomes(goto_line(grid, row), [name |-> "handler"])

Do_goto_col ==
    \E col \in Counts : GridBecomes(goto_col(grid, col), [name |-> "handler"])

Do_insert_blank ==
    \E cols \in Counts :
        GridBecomes(insert_blank(grid, cols), [name |-> "handler"])

Do_move_up ==
    \E rows \in Counts : GridBecomes(move_up(grid, rows), [name |-> "handler"])

Do_move_down ==
    \E rows \in Counts : GridBecomes(move_down(grid, rows), [name |-> "handler"])

Do_move_forward ==
    \E cols \in Counts : GridBecomes(move_forward(grid, cols), [name |-> "handler"])

Do_move_backward ==
    \E cols \in Counts : GridBecomes(move_backward(grid, cols), [name |-> "handler"])

Do_move_down_and_cr ==
    \E rows \in Counts :
        GridBecomes(move_down_and_cr(grid, rows), [name |-> "handler"])

Do_move_up_and_cr ==
    \E rows \in Counts :
        GridBecomes(move_up_and_cr(grid, rows), [name |-> "handler"])

\* The tab stops a cursor is taken through are capped.
Do_put_tab ==
    \E count \in Counts :
        /\ grid.cursor.col + 8 * count <= 8 * MaxTabs
        /\ GridBecomes(put_tab(grid, count), [name |-> "handler"])

Do_move_forward_tabs ==
    \E count \in Counts :
        /\ grid.cursor.col + 8 * count <= 8 * MaxTabs
        /\ GridBecomes(move_forward_tabs(grid, count), [name |-> "handler"])

Do_move_backward_tabs ==
    \E count \in Counts :
        GridBecomes(move_backward_tabs(grid, count), [name |-> "handler"])

Do_backspace == GridBecomes(backspace(grid), [name |-> "handler"])

Do_carriage_return == GridBecomes(carriage_return(grid), [name |-> "handler"])

Do_linefeed == GridBecomes(linefeed(grid), [name |-> "handler"])

Do_newline == GridBecomes(newline(grid), [name |-> "handler"])

Do_scroll_up ==
    \E rows \in Counts :
        GridBecomes(scroll_up(grid, rows), [name |-> "handler"])

Do_scroll_down ==
    \E rows \in Counts :
        GridBecomes(scroll_down(grid, rows), [name |-> "handler"])

Do_insert_blank_lines ==
    \E rows \in Counts :
        GridBecomes(insert_blank_lines(grid, rows), [name |-> "handler"])

Do_delete_lines ==
    \E rows \in Counts :
        GridBecomes(delete_lines(grid, rows), [name |-> "handler"])

Do_erase_chars ==
    \E cols \in Counts :
        GridBecomes(erase_chars(grid, cols), [name |-> "handler"])

Do_delete_chars ==
    \E cols \in Counts :
        GridBecomes(delete_chars(grid, cols), [name |-> "handler"])

Do_save_cursor_position ==
    GridBecomes(save_cursor_position(grid), [name |-> "save_cursor_position"])

Do_restore_cursor_position ==
    GridBecomes(restore_cursor_position(grid), [name |-> "restore_cursor_position"])

Do_clear_line ==
    \E mode \in LineClearModes :
        GridBecomes(clear_line(grid, mode), [name |-> "handler"])

Do_clear_screen ==
    \E mode \in ClearModes :
        GridBecomes(clear_screen(grid, mode), [name |-> "handler"])

\* A cursor that has wrapped past row 0 is not taken further up.
Do_reverse_index ==
    /\ grid.cursor.row <= grid.height
    /\ GridBecomes(reverse_index(grid), [name |-> "handler"])

Do_terminal_attribute ==
    \E attr \in Attrs :
        GridBecomes(terminal_attribute(grid, attr), [name |-> "handler"])

Do_set_scrolling_region ==
    \E top \in 1..(MaxCount + 1),
       bottom \in {None} \cup {Some(b) : b \in 1..(MaxCount + 1)} :
        GridBecomes(set_scrolling_region(grid, top, bottom),
                    [name |-> "handler"])

Do_mark_all_dirty == GridBecomes(mark_all_dirty(grid), [name |-> "mark_all_dirty"])

Do_draw == GridBecomes(draw(grid), [name |-> "draw"])

\* op keeps the size the Grid had before and the size asked for.
Do_resize ==
    \E sz \in GridSizes :
        GridBecomes(Grid_resize(grid, sz.width, sz.height),
                    [name |-> "resize", width |-> grid.width, height |-> grid.height,
                     new_width |-> sz.width, new_height |-> sz.height])

\* scroll_up and scroll_down with the Grid before the scroll_up kept, for the
\* pair of calls to be compared with it.
Rec_scroll_up ==
    \E rows \in Counts :
        /\ grid.fault = "none"
        /\ grid' = scroll_up(grid, rows)
        /\ op' = [name |-> "scroll_up", n |-> rows]
        /\ snap' = <<grid>>
        /\ UNCHANGED <<next_window, selected_window, windows, size, calls, ret,
                       issued, was_selected, loop_vars>>

Rec_scroll_down ==
    \E rows \in Counts :
        /\ grid.fault = "none"
        /\ grid' = scroll_down(grid, rows)
        /\ op' = [name |-> "scroll_down", n |-> rows]
        /\ snap' = IF op.name = "scroll_up" THEN snap ELSE <<>>
        /\ UNCHANGED <<next_window, selected_window, windows, size, calls, ret,
                       issued, was_selected, loop_vars>>

\* The calls of the Handler trait the Grid acts on (SGR is in SpecColor).
NextGrid ==
    \/ Do_input
    \/ Do_goto
    \/ Do_goto_line
    \/ Do_goto_col
    \/ Do_insert_blank
    \/ Do_move_up
    \/ Do_move_down
    \/ Do_move_forward
    \/ Do_move_backward
    \/ Do_move_down_and_cr
    \/ Do_move_up_and_cr
    \/ Do_put_tab
    \/ Do_move_forward_tabs
    \/ Do_move_backward_tabs
    \/ Do_backspace
    \/ Do_carriage_return
    \/ Do_linefeed
    \/ Do_newline
    \/ Do_scroll_up
    \/ Do_scroll_down
    \/ Do_insert_blank_lines
    \/ Do_delete_lines
    \/ Do_erase_chars
    \/ Do_delete_chars
    \/ Do_save_cursor_position
    \/ Do_restore_cursor_position
    \/ Do_clear_line
    \/ Do_clear_screen
    \/ Do_reverse_index
    \/ Do_set_scrolling_region

\* A Grid driven through the Handler trait, in either build profile.
SpecGrid == InitGrid /\ [][NextGrid]_vars

\* The Grid as its Window uses it: Handler calls, draw, mark_all_dirty and
\* resize, in a build with overflow checks.
NextGridResize ==
    \/ NextGrid
    \/ Do_mark_all_dirty
    \/ Do_draw
    \/ Do_resize

SpecGridResize == InitGridIn({TRUE}, GridSizes) /\ [][NextGridResize]_vars

\* Coloured text and resizes.
NextColor ==
    \/ Do_input
    \/ Do_goto
    \/ Do_put_tab
    \/ Do_terminal_attribute
    \/ Do_resize

SpecColor == InitGridIn({TRUE}, GridSizes) /\ [][NextColor]_vars

\* The sizes of the Grids that are scrolled up and back down.
ScrollSizes == {[width |-> w, height |-> 3] : w \in {1, 2}}

\* Text, scrolling regions and scrolls.
NextScroll ==
    \/ Do_input
    \/ Do_goto
    \/ Do_set_scrolling_region
    \/ Rec_scroll_up
    \/ Rec_scroll_down

SpecScroll == InitGridIn({TRUE}, ScrollSizes) /\ [][NextScroll]_vars


(* ----------------------------- Grid claims ----------------------------- *)

\* The buffer holds `height` rows of `width` cells.
BufferShaped(g) ==
    /\ DOMAIN g.buffer = 0..(g.height - 1)
    /\ \A row \in DOMAIN g.buffer : DOMAIN g.buffer[row] = 0..(g.width - 1)

\* C23 as stated: after every handler call the cursor column is below the
\* width, the cursor row is at most the bottom of the scrolling region, and the
\* buffer holds height rows of width cells.
C23_CursorInBounds ==
    grid.fault = "none" =>
        /\ grid.cursor.col < grid.width
        /\ grid.cursor.row <= grid.scrolling_region.end
        /\ BufferShaped(grid)

\* C24 as stated: no call reads or writes a cell outside the buffer, the
\* cursor being in a column of the grid before the call (at the pending-wrap
\* position or in a row below the scrolling region included).
C24_CellAccessInRange ==
    [][(grid.fault = "none" /\ grid.cursor.col < grid.width) =>
          grid'.fault # "index"]_vars

\* C25 as stated: after every call the scrolling region has
\* top < bottom <= height.
C25_RegionOrdered ==
    grid.fault = "none" =>
        /\ grid.scrolling_region.start < grid.scrolling_region.end
        /\ grid.scrolling_region.end <= grid.height

\* The rows of the buffer whose cells differ before and after a call.
ChangedRows(g, h) ==
    {row \in DOMAIN h.buffer : row \notin DOMAIN g.buffer \/ h.buffer[row] # g.buffer[row]}

\* C26: a call other than draw, mark_all_dirty and resize keeps the dirty rows
\* and adds every row it changed; draw leaves dirty_rows empty; mark_all_dirty
\* and resize leave dirty_rows equal to 0..height-1.
C26_DirtyRows ==
    [][(grid.fault = "none" /\ grid'.fault = "none") =>
          /\ op'.name \in {"handler", "save_cursor_position",
                            "restore_cursor_position"} =>
                /\ grid.dirty_rows \subseteq grid'.dirty_rows
                /\ ChangedRows(grid, grid') \subseteq grid'.dirty_rows
          /\ op'.name = "draw" => grid'.dirty_rows = {}
          /\ op'.name \in {"mark_all_dirty", "resize"} =>
                grid'.dirty_rows = 0..(grid'.height - 1)]_vars

\* C26 witness: after a draw, text was written in the second row only, and
\* that row alone is dirty.
C26_Witness ==
    /\ grid.fault = "none"
    /\ op.name = "handler"
    /\ grid.height = 2
    /\ grid.dirty_rows = {1}
    /\ \E col \in DOMAIN grid.buffer[1] : grid.buffer[1][col] # Cell_default

\* C27: save_cursor_position stores the cursor, no other handler call changes
\* what is stored, and restore_cursor_position sets the cursor to what is
\* stored: with no resize in between, the cursor after a restore is the cursor
\* at the time of the save.
C27_SaveRestore ==
    [][(grid.fault = "none" /\ grid'.fault = "none") =>
          /\ op'.name = "save_cursor_position" => grid'.saved_cursor = grid.cursor
          /\ op'.name = "handler" => grid'.saved_cursor = grid.saved_cursor
          /\ op'.name = "restore_cursor_position" =>
                (grid'.cursor = grid.saved_cursor /\
                 grid'.saved_cursor = grid.saved_cursor)]_vars

\* C27 witness: a restore brought the cursor back to a saved position away
\* from the origin, after text had been written.
C27_Witness ==
    /\ grid.fault = "none"
    /\ op.name = "restore_cursor_position"
    /\ grid.cursor = grid.saved_cursor
    /\ grid.cursor.col > 0
    /\ grid.cursor.row > 0
    /\ \E row \in DOMAIN grid.buffer : \E col \in DOMAIN grid.buffer[row] :
            grid.buffer[row][col] # Cell_default

\* C28: scroll_up(n) with n < bottom - top, then scroll_down(n): the rows
\* outside the region and the rows top+n .. bottom-1 hold what they held before
\* the scroll_up, and the rows top .. top+n-1 hold default cells.
C28_ScrollUpDown ==
    [][(/\ op.name = "scroll_up"
        /\ snap # <<>>
        /\ op'.name = "scroll_down"
        /\ op'.n = op.n
        /\ op.n < snap[1].scrolling_region.end - snap[1].scrolling_region.start) =>
          LET before == snap[1]
              top == before.scrolling_region.start
              bottom == before.scrolling_region.end
          IN /\ grid'.fault = "none"
             /\ \A row \in DOMAIN before.buffer :
                    IF row >= top /\ row < top + op.n
                    THEN grid'.buffer[row] = Row_new(before.width, Cell_default)
                    ELSE grid'.buffer[row] = before.buffer[row]]_vars

\* C28 witness: a row of text was scrolled off the top of a three-row region
\* and the row of text below it came back to its place.
C28_Witness ==
    /\ op.name = "scroll_down"
    /\ op.n = 1
    /\ snap # <<>>
    /\ snap[1].scrolling_region = [start |-> 0, end |-> 3]
    /\ snap[1].buffer[0] # Row_new(grid.width, Cell_default)
    /\ snap[1].buffer[1] # Row_new(grid.width, Cell_default)
    /\ grid.buffer[1] = snap[1].buffer[1]
    /\ grid.buffer[0] = Row_new(grid.width, Cell_default)

\* C29: a resize to a width and a height that are both at least the old ones
\* keeps every cell, character and colours, where it was, fills the added
\* cells with the default cell and leaves the cursor alone.
C29_ResizeGrow ==
    [][(/\ grid.fault = "none"
        /\ op'.name = "resize"
        /\ op'.new_width >= grid.width
        /\ op'.new_height >= grid.height) =>
          /\ grid'.fault = "none"
          /\ grid'.width = op'.new_width
          /\ grid'.height = op'.new_height
          /\ BufferShaped(grid')
          /\ \A row \in DOMAIN grid'.buffer : \A col \in DOMAIN grid'.buffer[row] :
                grid'.buffer[row][col] =
                    IF row < grid.height /\ col < grid.width
                    THEN grid.buffer[row][col] ELSE Cell_default
          /\ grid'.cursor = grid.cursor]_vars

\* C29 witness: a 1x1 grid holding a coloured character grew to 2x2 while
\* its SGR template was not the default.
C29_Witness ==
    /\ grid.fault = "none"
    /\ op.name = "resize"
    /\ op.width = 1
    /\ op.height = 1
    /\ grid.width = 2
    /\ grid.height = 2
    /\ grid.buffer[0][0].c = "a"
    /\ grid.buffer[0][0].fg = "Blue"
    /\ grid.sgr_template # Cell_default
    /\ grid.buffer[1][1] = Cell_default

\* C30 as stated: after a resize that shrinks the grid, the cursor column
\* and the saved column are below the new width and the saved row is below the
\* new height; a resize that keeps the height keeps cursor.row and
\* saved_cursor.row (the cursors being inside the grid before the resize).
C30_ShrinkClampsCursors ==
    [][(/\ grid.fault = "none"
        /\ grid'.fault = "none"
        /\ op'.name = "resize"
        /\ grid.cursor.col < grid.width
        /\ grid.cursor.row < grid.height
        /\ grid.saved_cursor.col < grid.width
        /\ grid.saved_cursor.row < grid.height
        /\ (op'.new_width < grid.width \/ op'.new_height < grid.height)) =>
          /\ grid'.cursor.col < grid'.width
          /\ grid'.saved_cursor.col < grid'.width
          /\ grid'.saved_cursor.row < grid'.height
          /\ op'.new_height = grid.height =>
                (grid'.cursor.row = grid.cursor.row /\
                 grid'.saved_cursor.row = grid.saved_cursor.row)]_vars

(* ------------------------ Grid claims, continued ----------------------- *)

\* C37 as stated: every horizontal motion, the tab-stop displacement of
\* put_tab and move_forward_tabs included, leaves cursor.col clamped into
\* [0, width): a call made with the cursor in a column of the grid leaves it in
\* a column of the grid, at most width - 1.
C37_HorizontalClamped ==
    [][(/\ grid.fault = "none"
        /\ grid'.fault = "none"
        /\ op'.name = "handler"
        /\ grid.cursor.col < grid.width) =>
          (0 <= grid'.cursor.col /\ grid'.cursor.col <= grid'.width - 1)]_vars

\* Grid::resize, lines 221-226: the rows in use, up to the cursor.
occupied(g) == IF g.cursor.col = 0 THEN g.cursor.row ELSE g.cursor.row + 1

\* C35 as stated: on a resize to a smaller height made with the cursor in
\* the grid, if occupied > new_height the rows 0..occupied are scrolled up by
\* occupied - new_height and cursor.row decreases by as much; if
\* occupied <= new_height no surviving cell and no cursor coordinate changes;
\* either way the last row in use is a row of the grid afterwards.
C35_ShorterScrollsOccupied ==
    [][(/\ grid.fault = "none"
        /\ op'.name = "resize"
        /\ op'.new_height < grid.height
        /\ grid.cursor.col < grid.width
        /\ occupied(grid) <= grid.height) =>
          LET d == occupied(grid) - op'.new_height
              cols == 0..(Min(grid.width, op'.new_width) - 1)
          IN /\ grid'.fault = "none"
             /\ grid'.height = op'.new_height
             /\ IF d > 0
                THEN /\ grid'.cursor.row = grid.cursor.row - d
                     /\ grid'.cursor.col = grid.cursor.col
                     /\ \A row \in 0..(op'.new_height - 1) : \A col \in cols :
                            grid'.buffer[row][col] = grid.buffer[row + d][col]
                ELSE /\ grid'.cursor = grid.cursor
                     /\ \A row \in 0..(op'.new_height - 1) : \A col \in cols :
                            grid'.buffer[row][col] = grid.buffer[row][col]
             /\ occupied(grid') <= grid'.height]_vars

(* --------------------- Text typed into a fresh Grid -------------------- *)

\* tests::input_scroll and tests::overshoot: the text the tests type.
HelloWorld == <<"H", "e", "l", "l", "o", " ", "W", "o", "r", "l", "d", "!">>

\* Grid::new(width, height) for the text: 4x2 is tests::input_scroll.
TextSizes == {[width |-> w, height |-> h] : w \in 1..4, h \in 1..4}

\* The characters of the text typed so far.
Fed == IF op.name = "input_str" THEN op.fed ELSE 0

\* input_str!: the next character of the text goes to Handler::input.
Do_input_str ==
    /\ Fed < Len(HelloWorld)
    /\ GridBecomes(input(grid, HelloWorld[Fed + 1]),
                   [name |-> "input_str", fed |-> Fed + 1])

NextText == Do_input_str

SpecText == InitGridIn(BOOLEAN, TextSizes) /\ [][NextText]_vars

\* The characters of a row, left to right.
RowChars(g, row) == [i \in 1..g.width |-> g.buffer[row][i - 1].c]

\* The Grid of tests::input_scroll after "Hello " and "World!".
InputScrollDone ==
    /\ op.name = "input_str"
    /\ op.fed = Len(HelloWorld)
    /\ grid.width = 4
    /\ grid.height = 2

\* C31 as stated: on a 4x2 grid, after "Hello " and "World!", row 0 reads
\* o,W,o,r, row 1 reads l,d,!,default, and the cursor is at (col 3, row 1).
C31_Original ==
    InputScrollDone =>
        /\ RowChars(grid, 0) = <<"o", "W", "o", "r">>
        /\ RowChars(grid, 1) = <<"l", "d", "!", Cell_default.c>>
        /\ grid.cursor = CursorPos_at(3, 1)

\* C31 amended: on a 4x2 grid, after "Hello " and "World!", row 0 reads
\* o,space,W,o, row 1 reads r,l,d,!, and the cursor is at (col 0, row 2), the
\* pending-wrap position below the last row; after "Hello " row 0 reads
\* H,e,l,l and row 1 reads o,space,default,default.
C31_InputScroll ==
    /\ InputScrollDone =>
        /\ grid.fault = "none"
        /\ RowChars(grid, 0) = <<"o", " ", "W", "o">>
        /\ RowChars(grid, 1) = <<"r", "l", "d", "!">>
        /\ grid.cursor = CursorPos_at(0, 2)
    /\ (op.name = "input_str" /\ op.fed = 6 /\ grid.width = 4 /\ grid.height = 2) =>
        /\ RowChars(grid, 0) = <<"H", "e", "l", "l">>
        /\ RowChars(grid, 1) = <<"o", " ", Cell_default.c, Cell_default.c>>

\* C31 witness: the whole text was typed into a 4x2 grid and the first row
\* was scrolled off.
C31_Witness ==
    /\ InputScrollDone
    /\ grid.fault = "none"
    /\ grid.buffer[0][0].c # "H"

(* --------------------------- Device reports ---------------------------- *)

\* The decimal digits, as format! writes them.
Digits == <<"0", "1", "2", "3", "4", "5", "6", "7", "8", "9">>

\* Display for u16: the decimal digits of n, most significant first.
RECURSIVE Decimal(_)
Decimal(n) ==
    IF n < 10 THEN <<Digits[n + 1]>>
    ELSE Decimal(n \div 10) \o <<Digits[(n % 10) + 1]>>

\* The param of a device status report: 5, 6 and one that is neither.
StatusParams == {5, 6, 12}

\* Mutant: the report gives the column before the row.
device_status_reply_col_row(g, param) ==
    CASE param = 5 -> <<"ESC", "[", "0", "n">>
      [] param = 6 -> <<"ESC", "[">> \o Decimal((g.cursor.col + 1) % U16) \o <<";">>
                      \o Decimal((g.cursor.row + 1) % U16) \o <<"R">>
      [] OTHER -> <<>>

\* Handler::device_status: the bytes written to the file.
device_status_reply(g, param) ==
    CASE param = 5 -> <<"ESC", "[", "0", "n">>
      [] param = 6 -> <<"ESC", "[">> \o Decimal((g.cursor.row + 1) % U16) \o <<";">>
                      \o Decimal((g.cursor.col + 1) % U16) \o <<"R">>
      [] OTHER -> <<>>

\* Handler::device_status: the Grid afterwards; row + 1 and col + 1 are u16.
device_status(g, param) ==
    IF /\ param = 6
       /\ g.overflow_checks
       /\ (g.cursor.row + 1 = U16 \/ g.cursor.col + 1 = U16)
    THEN Fault(g, "overflow")
    ELSE g

\* op keeps the param and the bytes the file received.
Do_device_status ==
    \E param \in StatusParams :
        GridBecomes(device_status(grid, param),
                    [name |-> "device_status", param |-> param,
                     reply |-> IF Faulted(device_status(grid, param)) THEN <<>>
                               ELSE device_status_reply(grid, param)])

\* Grid::new(width, height) for the reports: two-digit columns.
ReportSizes == {[width |-> 12, height |-> 1], [width |-> 2, height |-> 2]}

NextReport ==
    \/ Do_input
    \/ Do_goto
    \/ Do_put_tab
    \/ Do_set_scrolling_region
    \/ Do_draw
    \/ Do_device_status

SpecReport == InitGridIn(BOOLEAN, ReportSizes) /\ [][NextReport]_vars

\* The number a sequence of decimal digits writes.
RECURSIVE DecimalValue(_)
DecimalValue(ds) ==
    IF ds = <<>> THEN 0
    ELSE 10 * DecimalValue(SubSeq(ds, 1, Len(ds) - 1))
         + ((CHOOSE k \in 1..10 : Digits[k] = ds[Len(ds)]) - 1)

\* A number written in decimal with no sign, no padding and no leading zero.
WritesNumber(ds, n) ==
    /\ ds # <<>>
    /\ \A i \in 1..Len(ds) : \E k \in 1..10 : Digits[k] = ds[i]
    /\ (Len(ds) > 1 => ds[1] # "0")
    /\ DecimalValue(ds) = n

\* C32: device_status(5) writes ESC [ 0 n; device_status(6) writes ESC [,
\* the cursor row plus one, a semicolon, the cursor column plus one, R; any
\* other param writes nothing; the Grid is as it was.
C32_DeviceStatus ==
    [][(grid.fault = "none" /\ op'.name = "device_status") =>
          /\ grid' = grid
          /\ op'.param = 5 => op'.reply = <<"ESC", "[", "0", "n">>
          /\ op'.param = 6 =>
                LET r == op'.reply IN
                \E i \in 4..(Len(r) - 2) :
                    /\ r[1] = "ESC"
                    /\ r[2] = "["
                    /\ WritesNumber(SubSeq(r, 3, i - 1), grid.cursor.row + 1)
                    /\ r[i] = ";"
                    /\ WritesNumber(SubSeq(r, i + 1, Len(r) - 1), grid.cursor.col + 1)
                    /\ r[Len(r)] = "R"
          /\ op'.param \notin {5, 6} => op'.reply = <<>>]_vars

\* C32 witness: a report of the cursor at row 0, column 10, on a Grid that
\* holds text and has no dirty row.
C32_Witness ==
    /\ grid.fault = "none"
    /\ op.name = "device_status"
    /\ op.reply = <<"ESC", "[", "1", ";", "1", "1", "R">>
    /\ grid.cursor = CursorPos_at(10, 0)
    /\ grid.buffer[0][9].c = "a"
    /\ grid.dirty_rows = {}

(* -------------------- Calls that scroll the region --------------------- *)

\* A call of the Handler trait with the Grid before it kept in snap and the
\* method's name in op.
Recorded(name, g) ==
    /\ grid.fault = "none"
    /\ grid' = g
    /\ op' = [name |-> name]
    /\ snap' = <<grid>>
    /\ UNCHANGED <<next_window, selected_window, windows, size, calls, ret,
                   issued, was_selected, loop_vars>>

Rec_linefeed == Recorded("linefeed", linefeed(grid))

Rec_reverse_index ==
    /\ grid.cursor.row <= grid.height
    /\ Recorded("reverse_index", reverse_index(grid))

Rec_insert_blank_lines ==
    \E rows \in Counts : Recorded("insert_blank_lines", insert_blank_lines(grid, rows))

Rec_delete_lines ==
    \E rows \in Counts : Recorded("delete_lines", delete_lines(grid, rows))

NextRegion ==
    \/ Do_input
    \/ Do_goto
    \/ Do_set_scrolling_region
    \/ Rec_scroll_up
    \/ Rec_scroll_down
    \/ Rec_linefeed
    \/ Rec_reverse_index
    \/ Rec_insert_blank_lines
    \/ Rec_delete_lines

SpecRegion == InitGridIn(BOOLEAN, ScrollSizes) /\ [][NextRegion]_vars

\* The buffer with the rows start..end-1 moved up by n rows, default rows
\* coming in at the bottom.
MovedUp(g, start, end, n) ==
    [row \in DOMAIN g.buffer |->
        IF row >= start /\ row < end
        THEN IF row + n < end THEN g.buffer[row + n]
             ELSE Row_new(g.width, Cell_default)
        ELSE g.buffer[row]]

\* C33 as stated: printing a glyph writes it with the colours of
\* sgr_template at the cursor and advances the column, a glyph in the last
\* column moving the cursor to column 0 of the next row without scrolling; the
\* region scrolls up by one line only when the glyph is printed with the cursor
\* at (col 0, row = scrolling_region.bottom), and that glyph goes to column 0 of
\* the region's last row (the cursor being in a column of the grid and in a
\* row of the grid or where the last wrap left it).
C33_InputWritesAndWraps ==
    [][(/\ grid.fault = "none"
        /\ grid.cursor.col < grid.width
        /\ grid.cursor.row <= grid.height
        /\ Do_input) =>
          LET region == grid.scrolling_region
              wrap == grid.cursor = CursorPos_at(0, region.end)
              at == IF wrap THEN CursorPos_at(0, region.end - 1) ELSE grid.cursor
              before == IF wrap THEN MovedUp(grid, region.start, region.end, 1)
                        ELSE grid.buffer
          IN /\ grid'.fault = "none"
             /\ \E c \in Chars :
                  grid'.buffer = [before EXCEPT ![at.row][at.col] =
                                    [grid.sgr_template EXCEPT !.c = c]]
             /\ grid'.cursor = IF at.col + 1 = grid.width
                               THEN CursorPos_at(0, at.row + 1)
                               ELSE CursorPos_at(at.col + 1, at.row)]_vars

\* C34: linefeed with the cursor on the last row of the scrolling region
\* moves the region up by one row and leaves the cursor; otherwise, if
\* cursor.row + 1 < height, it moves the cursor down one row and changes no
\* cell; otherwise it changes nothing; cursor.col never changes. cursor.row + 1
\* is the u16 the code computes.
C34_Linefeed ==
    [][(grid.fault = "none" /\ op'.name = "linefeed") =>
          LET region == grid.scrolling_region
              next == (grid.cursor.row + 1) % U16
          IN /\ grid'.fault = "none"
             /\ grid'.cursor.col = grid.cursor.col
             /\ IF next = region.end
                THEN /\ grid'.buffer = MovedUp(grid, region.start, region.end, 1)
                     /\ grid'.cursor = grid.cursor
                ELSE IF next < grid.height
                THEN /\ grid'.cursor.row = next
                     /\ grid'.buffer = grid.buffer
                ELSE /\ grid'.cursor = grid.cursor
                     /\ grid'.buffer = grid.buffer]_vars

\* C34 witness: a linefeed on the last row of a region that ends above the
\* last row of the grid scrolled text off the region and left the cursor there.
C34_Witness ==
    /\ grid.fault = "none"
    /\ op.name = "linefeed"
    /\ snap # <<>>
    /\ snap[1].scrolling_region = [start |-> 0, end |-> 2]
    /\ snap[1].cursor.row = 1
    /\ snap[1].buffer[0] # Row_new(grid.width, Cell_default)
    /\ snap[1].buffer[1] # Row_new(grid.width, Cell_default)
    /\ grid.buffer[0] = snap[1].buffer[1]
    /\ grid.buffer[1] = Row_new(grid.width, Cell_default)
    /\ grid.cursor = snap[1].cursor

\* The rows whose cells a call changed.
RowsChanged == {row \in DOMAIN grid.buffer : grid'.buffer[row] # grid.buffer[row]}

\* C36: scroll_up, scroll_down, linefeed, reverse_index, insert_blank_lines
\* and delete_lines change no cell of a row outside the scrolling region;
\* insert_blank_lines and delete_lines change no row above the cursor and
\* nothing at all when the cursor row is outside the region.
C36_RegionFrame ==
    [][(/\ grid.fault = "none"
        /\ op'.name \in {"scroll_up", "scroll_down", "linefeed", "reverse_index",
                          "insert_blank_lines", "delete_lines"}) =>
          LET region == grid.scrolling_region
              inside == {row \in DOMAIN grid.buffer :
                            row >= region.start /\ row < region.end}
          IN /\ grid'.fault \in {"none", "overflow"}
             /\ DOMAIN grid'.buffer = DOMAIN grid.buffer
             /\ RowsChanged \subseteq inside
             /\ op'.name \in {"insert_blank_lines", "delete_lines"} =>
                    /\ \A row \in RowsChanged : row >= grid.cursor.row
                    /\ grid.cursor.row \notin inside =>
                          (RowsChanged = {} /\ grid'.cursor = grid.cursor)]_vars

\* C36 witness: insert_blank_lines with the cursor on the second row of a
\* region of the first two rows blanked that row and left the text of the row
\* above it and of the row below the region.
C36_Witness ==
    /\ grid.fault = "none"
    /\ op.name = "insert_blank_lines"
    /\ snap # <<>>
    /\ snap[1].scrolling_region = [start |-> 0, end |-> 2]
    /\ snap[1].cursor.row = 1
    /\ \A row \in 0..2 : snap[1].buffer[row] # Row_new(grid.width, Cell_default)
    /\ grid.buffer[0] = snap[1].buffer[0]
    /\ grid.buffer[1] = Row_new(grid.width, Cell_default)
    /\ grid.buffer[2] = snap[1].buffer[2]

(* ----------------------- Session claims, continued --------------------- *)

\* C38: whenever a window is selected after a Session operation has
\* returned, the size last applied to that window is the session's size; only
\* windows that are not selected may hold an older size.
C38_SelectedHasSessionSize ==
    (ret # Panic /\ IsSome(selected_window)
        /\ Unwrap(selected_window) \in DOMAIN windows) =>
        windows[Unwrap(selected_window)].size = size

\* C38 witness: after a resize the selected window has the new size while
\* another window still holds the size it was created with.
C38_Witness ==
    /\ op.name = "resize"
    /\ ret = Ok
    /\ IsSome(selected_window)
    /\ windows[Unwrap(selected_window)].size = size
    /\ \E k \in DOMAIN windows : windows[k].size # size

\* C39: in the event loop, each window's stream yielding Exited at most once
\* and last, no Session call returns WindowLost, whatever the interleaving of
\* the streams with keyboard, resize and timer events.
C39_NoWindowLost ==
    pc # "none" =>
        /\ ret # Err("WindowLost")
        /\ op.name = "pty" => (ret = Ok /\ pc # "panicked")

\* C39 witness: the loop has handled the Exited of one window while the
\* streams of two other windows are still in the fan-in.
C39_Witness ==
    /\ pc = "loop"
    /\ op.name = "pty"
    /\ op.data = Exited
    /\ ret = Ok
    /\ op.idx \notin ptys_update
    /\ Cardinality(ptys_update) = 2
    /\ ptys_update = DOMAIN windows

\* C40 as stated: a terminal-resize notification handled while no window is
\* selected, after the last window's Exited and before the tick that ends the
\* loop, does not abort the loop.
C40_ResizeWithoutWindow ==
    [][(/\ pc = "loop"
        /\ issued # <<>>
        /\ DOMAIN windows = {}
        /\ selected_window = None
        /\ op'.name = "sigwinch") =>
          (pc' = "loop" /\ ret' # Panic)]_vars

=============================================================================
